---- MODULE Spec2Model ----
(***************************************************************************)
(* A model of the mediareaparr job runner (src/app.py): the multi-job      *)
(* driver main(), one job execution run_job() against a Radarr / Sonarr    *)
(* library, and the run-state recorder record_run() / save_state().        *)
(*                                                                         *)
(* run_job is one long handler; it is cut at its remote calls: every       *)
(* action below is one remote call together with the local code that       *)
(* follows it up to the next remote call (including the record_run and     *)
(* save_state that close the step).                                        *)
(***************************************************************************)
EXTENDS Integers, Sequences, FiniteSets, TLC

(***************************************************************************)
(* Bounds of the model.                                                    *)
(***************************************************************************)
\* STATE_HISTORY_LIMIT is read from the environment (src/app.py:17, default
\* 20); the model runs the program with a small configured limit so that the
\* cap is reached.
STATE_HISTORY_LIMIT == 3
\* driver processes (cron invocations of main) in the history scenario
MaxDriverRuns == 2
\* state writes that may fail during one behaviour of the history scenario
MaxSaveFailures == 1
\* half days the clock may advance during one behaviour of the time scenario
MaxTicks == 1
\* reads of the state file by the web UI during one behaviour of the reader
\* scenario
MaxReads == 1

(***************************************************************************)
(* Time.  Instants are whole minutes (the source divides seconds by 86400; *)
(* minutes keep the cutoff of a DAYS_OLD of 36500 inside the integers of   *)
(* the checker); the clock only takes multiples of half a day so that      *)
(* floor division by a day is observable.                                  *)
(***************************************************************************)
MinutesPerDay == 1440
Tick == MinutesPerDay \div 2
\* DAYS_OLD of the jobs of the model
DaysOld == 1
StartClock == (DaysOld + 1) * MinutesPerDay
\* "added" instants of remote items, seen from StartClock: older than the
\* cutoff, exactly at the cutoff, younger than the cutoff
Old == 0
AtCutoff == StartClock - DaysOld * MinutesPerDay
Recent == StartClock - Tick
AddedTimes == {Old, AtCutoff, Recent}
\* half a day older than the cutoff: a whole day younger, in age, than Old
Aged == AtCutoff - Tick

JobIds == {"A", "B"}
TagLabel == "keep"
Modes == {"episodes_only", "episodes_then_series", "series"}

(***************************************************************************)
(* Sequence helpers.                                                       *)
(***************************************************************************)
Take(s, n) == SubSeq(s, 1, IF n < Len(s) THEN n ELSE Len(s))

Range(s) == {s[i] : i \in 1..Len(s)}

\* Python truthiness of an optional value modelled as a sequence of length <= 1
Truthy(opt) == opt # <<>>

(***************************************************************************)
(* parse_iso_date / parse_radarr_date.  A remote timestamp is modelled by  *)
(* its textual form and the instant it denotes: "Z" (ISO with trailing Z), *)
(* "naive" (ISO without zone, read as UTC), "empty" and "garbage".         *)
(* The result is a sequence: <<t>> for a parsed instant, <<>> for None.    *)
(***************************************************************************)
IsoForms == {"Z", "naive"}

parse_iso_date(s) == IF s.form \in IsoForms THEN <<s.t>> ELSE <<>>

\* parse_radarr_date raises on text that is not ISO ("raise" below); run_job
\* never calls it on an empty string.
parse_radarr_date(s) ==
    IF s.form \in IsoForms THEN [raise |-> FALSE, t |-> s.t]
    ELSE [raise |-> TRUE, t |-> 0]

Iso(t) == [form |-> "Z", t |-> t]
\* an ISO text without zone, a missing (or empty) text, a text that is no date
Naive(t) == [form |-> "naive", t |-> t]
Missing == [form |-> "empty", t |-> 0]
Garbage == [form |-> "garbage", t |-> 0]

(***************************************************************************)
(* clamp_int.  A configuration value as config.json (or the environment)   *)
(* gives it: an integer, a float (n + 1/2, n >= 0), a text of digits, a    *)
(* text that is no number, or null.                                        *)
(***************************************************************************)
IntValue(n) == [kind |-> "int", n |-> n]
FloatValue(n) == [kind |-> "float", n |-> n]
Digits(n) == [kind |-> "digits", n |-> n]
Text == [kind |-> "text", n |-> 0]
None == [kind |-> "none", n |-> 0]

\* int(v): an integer is itself, a float is truncated, a text of digits is
\* read; any other text and None raise (<<>> below)
ToInt(v) == IF v.kind \in {"int", "float", "digits"} THEN <<v.n>> ELSE <<>>

\* a clamp that lets a value above the range through
clamp_int_NoUpper(v, lo, hi, default) ==
    IF ToInt(v) = <<>> THEN default
    ELSE IF ToInt(v)[1] < lo THEN lo
    ELSE ToInt(v)[1]

\* clamp_int (src/app.py 61-70)
clamp_int(v, lo, hi, default) ==
    IF ToInt(v) = <<>> THEN default
    ELSE IF ToInt(v)[1] < lo THEN lo
    ELSE IF ToInt(v)[1] > hi THEN hi
    ELSE ToInt(v)[1]

\* normalize_job (src/app.py 100-135); the fields other than DAYS_OLD are
\* held in their normal form by the model
normalize_job(j) == [j EXCEPT !.DAYS_OLD = clamp_int(@, 1, 36500, 30)]

\* list_jobs (src/app.py 236-241)
list_jobs(c) == [i \in 1..Len(c.JOBS) |-> normalize_job(c.JOBS[i])]

(***************************************************************************)
(* State.                                                                  *)
(***************************************************************************)
VARIABLES
    clock,          \* wall clock (minutes)
    ticksLeft,      \* how many more half days the clock may advance
    cfg,            \* config.json: [JOBS |-> sequence of normalized jobs]
    radarr,         \* remote Radarr: [tag, movie]
    sonarr,         \* remote Sonarr: [tag, series, episodefile]
    store,          \* state.json on disk
    saveFailsLeft,  \* how many more state writes may fail
    save_exc,       \* the exception that left the last save_state call, <<>> if none
    ui_seen,        \* the last load_state of the web UI, <<>> if none: what it
                    \* returned, the file content before and after the write
                    \* it raced with
    readsLeft,      \* how many more times the web UI may read the state file
    peer_pc,        \* a second driver process, started by cron for job B: where it is
    peer_state,     \* its in-memory state, loaded when it started
    peer_run,       \* its run_state
    peer_raised,    \* the exception its run_job raised, if any
    flag_written,   \* per job: the run of it in progress when its marker was last written, or 0
    driversLeft,    \* how many more times main() may be started
    nextUid,        \* identity of the next run_state dict
    pc,             \* position of the driver process
    state,          \* main's in-memory state dict
    selected,       \* main's jobs still to run (head: the current job)
    overall_fail,   \* main's overall_fail
    exit_code,      \* exit status of the last finished driver, <<>> if none
    run_state,      \* run_job's run_state dict
    cutoff,         \* run_job's locals
    now,
    tag_id,
    tagged_series,
    to_delete,      \* to_delete / candidates / episode_candidates
    idx,            \* position in the loop being executed
    raised,         \* an exception is propagating out of run_job's try body
    calls,          \* remote calls issued by the current run_job, in order
    flags,          \* ids of the jobs whose run_now_<id>.flag file exists
    chosen,         \* ids of the jobs the current driver selected, in list order
    attempted       \* the run_job calls of the current driver, in order

envVars == <<cfg, radarr, sonarr>>
jobVars == <<run_state, cutoff, now, tag_id, tagged_series, to_delete, idx, raised, calls>>
readVars == <<ui_seen, readsLeft>>
peerVars == <<peer_pc, peer_state, peer_run, peer_raised>>
vars == <<clock, ticksLeft, cfg, radarr, sonarr, store, saveFailsLeft, save_exc, readVars,
          peerVars, flag_written,
          driversLeft,
          nextUid, pc, state, selected, overall_fail, exit_code, run_state, cutoff,
          now, tag_id, tagged_series, to_delete, idx, raised, calls, flags, chosen,
          attempted>>

(***************************************************************************)
(* The run-state store: four views.  An absent key is the empty sequence.  *)
(***************************************************************************)
EmptyState ==
    [last_run |-> <<>>,
     last_runs |-> [j \in JobIds |-> <<>>],
     run_history |-> <<>>,
     run_history_by_job |-> [j \in JobIds |-> <<>>]]

\* record_run without the cut at STATE_HISTORY_LIMIT
record_run_Uncapped(st, job_id, r) ==
    [last_run |-> <<r>>,
     last_runs |-> [st.last_runs EXCEPT ![job_id] = <<r>>],
     run_history |-> <<r>> \o st.run_history,
     run_history_by_job |-> [st.run_history_by_job EXCEPT ![job_id] = <<r>> \o @]]

\* record_run that files the run under every job
record_run_AllJobs(st, job_id, r) ==
    [last_run |-> <<r>>,
     last_runs |-> [j \in JobIds |-> <<r>>],
     run_history |-> Take(<<r>> \o st.run_history, STATE_HISTORY_LIMIT),
     run_history_by_job |->
        [j \in JobIds |-> Take(<<r>> \o st.run_history_by_job[j], STATE_HISTORY_LIMIT)]]

\* record_run that forgets the per-job last run
record_run_NoLastRuns(st, job_id, r) ==
    [last_run |-> <<r>>,
     last_runs |-> st.last_runs,
     run_history |-> Take(<<r>> \o st.run_history, STATE_HISTORY_LIMIT),
     run_history_by_job |->
        [st.run_history_by_job EXCEPT
            ![job_id] = Take(<<r>> \o @, STATE_HISTORY_LIMIT)]]

\* record_run: the four views take the run; the two lists are cut at the limit.
record_run(st, job_id, r) ==
    [last_run |-> <<r>>,
     last_runs |-> [st.last_runs EXCEPT ![job_id] = <<r>>],
     run_history |-> Take(<<r>> \o st.run_history, STATE_HISTORY_LIMIT),
     run_history_by_job |->
        [st.run_history_by_job EXCEPT
            ![job_id] = Take(<<r>> \o @, STATE_HISTORY_LIMIT)]]

\* run_state is one Python dict: every place of the in-memory state that holds
\* it (same identity, uid) shows a mutation of it at once.
AliasSeq(s, r) == [i \in 1..Len(s) |-> IF s[i].uid = r.uid THEN r ELSE s[i]]

Alias(st, r) ==
    [last_run |-> AliasSeq(st.last_run, r),
     last_runs |-> [j \in JobIds |-> AliasSeq(st.last_runs[j], r)],
     run_history |-> AliasSeq(st.run_history, r),
     run_history_by_job |-> [j \in JobIds |-> AliasSeq(st.run_history_by_job[j], r)]]

\* save_state / save_json: the whole state replaces the file; a failed write is
\* swallowed and leaves the file as it was.
SaveOutcomes == IF saveFailsLeft > 0 THEN {TRUE, FALSE} ELSE {TRUE}

\* save_json without its try/except: the error of the write reaches the caller
save_json_Unguarded(content, data, written) ==
    [content |-> IF written THEN data ELSE content,
     exc |-> IF written THEN <<>> ELSE <<"os_error">>]

\* save_json (src/app.py 40-46): the file takes the data, or the write fails
\* and "except Exception: pass" keeps the error from the caller
save_json(content, data, written) ==
    [content |-> IF written THEN data ELSE content, exc |-> <<>>]

\* The text of the state file as a reader finds it: json.dumps of a content,
\* or the empty or cut text that is there between the truncation of
\* write_text and the end of its write.
Dumped(content) == [kind |-> "json", value |-> content]
Partial == [kind |-> "partial", value |-> EmptyState]

\* path.write_text (src/app.py 43): open for writing truncates, then the
\* text is written
TextsDuringWrite(content, data) == {Dumped(content), Partial, Dumped(data)}

\* load_state of the web UI (src/webui.py 214-220): the parsed text, or {}
\* when json.loads raises
load_state(text) == IF text.kind = "json" THEN text.value ELSE EmptyState

\* the web UI may call load_state while save_json writes
ReadsDuringWrite(content, data) ==
    {[seen |-> ui_seen, left |-> readsLeft]} \cup
    IF readsLeft = 0 THEN {}
    ELSE {[seen |-> <<[content |-> load_state(t), before |-> content, after |-> data]>>,
           left |-> readsLeft - 1] : t \in TextsDuringWrite(content, data)}

save_state(st, written) ==
    /\ store' = save_json(store, st, written).content
    /\ save_exc' = save_json(store, st, written).exc
    /\ saveFailsLeft' = IF written THEN saveFailsLeft ELSE saveFailsLeft - 1
    /\ \E r \in ReadsDuringWrite(store, store') :
        /\ ui_seen' = r.seen
        /\ readsLeft' = r.left

\* the mutation of run_state to r followed by record_run and save_state
RecordAndSave(r, written) ==
    /\ run_state' = r
    /\ state' = record_run(Alias(state, r), r.job_id, r)
    /\ save_state(state', written)

\* a mutation of run_state that is not recorded
MutateOnly(r) ==
    /\ run_state' = r
    /\ state' = Alias(state, r)
    /\ UNCHANGED <<store, saveFailsLeft, save_exc, readVars>>

\* datetime.now(): the clock may have advanced since the last look
Advances == 0..ticksLeft

Tick_(d) ==
    /\ clock' = clock + d * Tick
    /\ ticksLeft' = ticksLeft - d

(***************************************************************************)
(* Remote calls.  Every call either returns or raises (requests error,     *)
(* timeout, non-2xx); the log keeps what run_job issued.  "pass" tells the *)
(* two uses of the episode-file listing apart: 1 in candidate discovery,   *)
(* 2 in the remaining-files check of episodes_then_series.                 *)
(***************************************************************************)
\* "n" is the number of episode files an episode-file listing returned, and
\* "target" the remote entity a delete call names, as the remote holds it when
\* the call arrives: its tags (for an episode file, the tags of its series)
\* and its added timestamp.
\* run_job's timeout (src/app.py 316-319)
timeout == clamp_int(cfg.HTTP_TIMEOUT_SECONDS, 5, 300, 30)

Call(op, id, ok) ==
    [op |-> op, id |-> id, ok |-> ok, pass |-> 1, n |-> 0, target |-> <<>>,
     timeout |-> timeout]

TargetOf(kind, id) ==
    IF kind = "movie"
    THEN LET m == SelectSeq(radarr.movie, LAMBDA x : x.id = id)
         IN  IF m = <<>> THEN <<>> ELSE <<[tags |-> m[1].tags, added |-> m[1].added]>>
    ELSE IF kind = "series"
    THEN LET x == SelectSeq(sonarr.series, LAMBDA y : y.id = id)
         IN  IF x = <<>> THEN <<>> ELSE <<[tags |-> x[1].tags, added |-> x[1].added]>>
    ELSE LET f == SelectSeq(sonarr.episodefile, LAMBDA y : y.id = id)
             o == IF f = <<>> THEN <<>>
                  ELSE SelectSeq(sonarr.series, LAMBDA y : y.id = f[1].seriesId)
         IN  IF f = <<>> THEN <<>>
             ELSE <<[tags |-> IF o = <<>> THEN {} ELSE o[1].tags,
                     added |-> f[1].dateAdded]>>

DeleteCall(kind, op, id, ok) == [Call(op, id, ok) EXCEPT !.target = TargetOf(kind, id)]

DeleteOps == {"delete_movie", "delete_episode_file", "delete_series"}

\* radarr_delete_movie, sonarr_delete_episode_file, sonarr_delete_series on
\* the remote side: the entity leaves the library (a series with its files).
RemoteDeleteMovie(lib, id) ==
    [lib EXCEPT !.movie = SelectSeq(@, LAMBDA m : m.id # id)]

RemoteDeleteEpisodeFile(lib, id) ==
    [lib EXCEPT !.episodefile = SelectSeq(@, LAMBDA f : f.id # id)]

RemoteDeleteSeries(lib, id) ==
    [lib EXCEPT !.series = SelectSeq(@, LAMBDA x : x.id # id),
                !.episodefile = SelectSeq(@, LAMBDA f : f.seriesId # id)]

\* sonarr_episode_files_for_series
sonarr_episode_files_for_series(lib, sid) ==
    SelectSeq(lib.episodefile, LAMBDA f : f.seriesId = sid)

(***************************************************************************)
(* Tag lookup.                                                             *)
(***************************************************************************)
\* run_job, Radarr: the first tag whose label is the job's; tag["id"]
RadarrFindTag(tags, label) ==
    LET m == SelectSeq(tags, LAMBDA t : t.label = label)
    IN  IF m = <<>> THEN <<>> ELSE <<m[1].id>>

\* a lookup that falls back on the first tag of the remote
SonarrFindTag_Default(tags, label) ==
    LET m == SelectSeq(tags, LAMBDA t : t.label = label /\ t.label # "")
    IN  IF m = <<>> \/ m[Len(m)].id = 0 THEN <<tags[1].id>> ELSE <<m[Len(m)].id>>

\* sonarr_tags_map then label_to_id.get(tag_label): the last tag with the
\* label wins; "if not tag_id" also rejects the id 0.
SonarrFindTag(tags, label) ==
    LET m == SelectSeq(tags, LAMBDA t : t.label = label /\ t.label # "")
    IN  IF m = <<>> \/ m[Len(m)].id = 0 THEN <<>> ELSE <<m[Len(m)].id>>

(***************************************************************************)
(* Candidate selection.                                                    *)
(***************************************************************************)
\* an age counted up to the day before the sampled instant
AgeDays_DayEarlier(nw, added) == (nw - MinutesPerDay - added) \div MinutesPerDay

\* an age rounded up to the next whole day
AgeDays_Ceiling(nw, added) == (nw - added + MinutesPerDay - 1) \div MinutesPerDay

\* int((now - added).total_seconds() // 86400), in minutes
AgeDays(nw, added) == (nw - added) \div MinutesPerDay

\* the age test made non-strict
Eligible_NotStrict(added, cut) == added <= cut

\* the strict age test of the three selection loops
Eligible(added, cut) == added < cut

\* a selection that is left in listing order
SortDesc_Unsorted(cands) == cands

\* list.sort(key=age_days, reverse=True): stable, descending
RECURSIVE InsertDesc(_, _)
InsertDesc(sorted, c) ==
    IF sorted = <<>> THEN <<c>>
    ELSE IF Head(sorted).age_days >= c.age_days
         THEN <<Head(sorted)>> \o InsertDesc(Tail(sorted), c)
         ELSE <<c>> \o sorted

RECURSIVE SortDesc(_)
SortDesc(cands) ==
    IF cands = <<>> THEN <<>>
    ELSE InsertDesc(SortDesc(SubSeq(cands, 1, Len(cands) - 1)), cands[Len(cands)])

\* the Radarr loop over movies: does parse_radarr_date raise on one of them
MovieLoopRaises(movies, tid) ==
    \E i \in 1..Len(movies) :
        /\ tid \in movies[i].tags
        /\ movies[i].added.form # "empty"
        /\ parse_radarr_date(movies[i].added).raise

MovieCandidates(movies, tid, cut, nw) ==
    LET elig == SelectSeq(movies, LAMBDA m :
                    /\ tid \in m.tags
                    /\ m.added.form # "empty"
                    /\ ~parse_radarr_date(m.added).raise
                    /\ Eligible(parse_radarr_date(m.added).t, cut))
    IN  [i \in 1..Len(elig) |->
            [item |-> elig[i], sid |-> 0,
             age_days |-> AgeDays(nw, parse_radarr_date(elig[i].added).t)]]

\* a selection that ignores the tag
TaggedSeries_All(series, tid) == series

TaggedSeries(series, tid) == SelectSeq(series, LAMBDA x : tid \in x.tags)

SeriesCandidates(tagged, cut, nw) ==
    LET elig == SelectSeq(tagged, LAMBDA x :
                    /\ parse_iso_date(x.added) # <<>>
                    /\ Eligible(parse_iso_date(x.added)[1], cut))
    IN  [i \in 1..Len(elig) |->
            [item |-> elig[i], sid |-> 0,
             age_days |-> AgeDays(nw, parse_iso_date(elig[i].added)[1])]]

EpisodeCandidates(efiles, sid, cut, nw) ==
    LET elig == SelectSeq(efiles, LAMBDA f :
                    /\ parse_iso_date(f.dateAdded) # <<>>
                    /\ Eligible(parse_iso_date(f.dateAdded)[1], cut))
    IN  [i \in 1..Len(elig) |->
            [item |-> elig[i], sid |-> sid,
             age_days |-> AgeDays(nw, parse_iso_date(elig[i].dateAdded)[1])]]

(***************************************************************************)
(* main(): start of a driver process.                                      *)
(***************************************************************************)
JobIdsOf(jobs) == {jobs[i].id : i \in 1..Len(jobs)}

\* the run-now marker of a job: a file run_now_<id>.flag
has_run_now_flag(job_id) == job_id \in flags

\* a driver that leaves the marker in place
clear_run_now_flag_Keep(fl, job_id) == fl

\* clear_run_now_flag: the file is removed if it exists
clear_run_now_flag(fl, job_id) == fl \ {job_id}

\* main's command line without --job-id
DriverFlags == {"--run-enabled", "--run-now-only"}

\* main, argument parsing to the selection of jobs (src/app.py 687-715).
\* arg is "--run-enabled" or the id given with --job-id.
DriverStart ==
    /\ pc = "idle"
    /\ driversLeft > 0
    /\ driversLeft' = driversLeft - 1
    /\ \E arg \in DriverFlags \cup JobIdsOf(cfg.JOBS) :
        LET jobs == list_jobs(cfg)
            byId == SelectSeq(jobs, LAMBDA j : j.id = arg)
            sel  == IF arg = "--run-enabled"
                    THEN SelectSeq(jobs, LAMBDA j : j.enabled)
                    ELSE IF arg = "--run-now-only"
                    THEN SelectSeq(jobs, LAMBDA j : j.enabled /\ has_run_now_flag(j.id))
                    ELSE <<byId[1]>>
        IN  /\ state' = store
            /\ overall_fail' = FALSE
            /\ attempted' = <<>>
            /\ IF arg \notin DriverFlags /\ ~byId[1].enabled
               THEN /\ selected' = <<>>
                    /\ exit_code' = <<3>>
                    /\ pc' = "idle"
               ELSE IF sel = <<>>
               THEN /\ selected' = <<>>
                    /\ exit_code' = <<0>>
                    /\ pc' = "idle"
               ELSE /\ selected' = sel
                    /\ exit_code' = <<>>
                    /\ pc' = "job"
            /\ chosen' = [i \in 1..Len(selected') |-> selected'[i].id]
    /\ UNCHANGED <<clock, ticksLeft, envVars, store, saveFailsLeft, save_exc, readVars, nextUid, jobVars, flags>>
    /\ UNCHANGED <<peerVars, flag_written>>

\* main: the loop over selected is exhausted (src/app.py 728-729)
DriverExit ==
    /\ pc = "job"
    /\ selected = <<>>
    /\ exit_code' = <<IF overall_fail THEN 1 ELSE 0>>
    /\ pc' = "idle"
    /\ UNCHANGED <<clock, ticksLeft, envVars, store, saveFailsLeft, save_exc, readVars, driversLeft,
                   nextUid, state, selected, overall_fail, jobVars, flags, chosen,
                   attempted>>
    /\ UNCHANGED <<peerVars, flag_written>>

(***************************************************************************)
(* run_job.                                                                *)
(***************************************************************************)
job == Head(selected)

InitialRunState(j, uid, started) ==
    [uid |-> uid,
     job_id |-> j.id,
     app |-> j.APP,
     sonarr_delete_mode |-> IF j.APP = "sonarr" THEN j.SONARR_DELETE_MODE ELSE "none",
     started_at |-> started,
     finished_at |-> <<>>,
     duration_seconds |-> <<>>,
     status |-> "running",
     dry_run |-> j.DRY_RUN,
     tag_label |-> j.TAG_LABEL,
     days_old |-> j.DAYS_OLD,
     candidates_found |-> 0,
     deleted_count |-> 0,
     deleted |-> <<>>,
     errors |-> <<>>]

\* a first record that stays in memory
FirstRecord_Unsaved(r, written) == MutateOnly(r)

\* "record immediately": record_run and save_state of the initial run state
\* (src/app.py 356-357)
FirstRecord(r, written) == RecordAndSave(r, written)

\* run_job up to the first record (src/app.py 316-357)
StartJob ==
    /\ pc = "job"
    /\ selected # <<>>
    /\ \E d \in Advances, written \in SaveOutcomes :
        /\ Tick_(d)
        /\ FirstRecord(InitialRunState(job, nextUid, clock'), written)
    /\ nextUid' = nextUid + 1
    /\ cutoff' = 0
    /\ now' = 0
    /\ tag_id' = 0
    /\ tagged_series' = <<>>
    /\ to_delete' = <<>>
    /\ idx' = 1
    /\ raised' = <<>>
    /\ calls' = <<>>
    /\ pc' = "tags"
    /\ attempted' = Append(attempted, [id |-> job.id, uid |-> nextUid, outcome |-> "running"])
    /\ UNCHANGED <<envVars, driversLeft, selected, overall_fail, exit_code, flags, chosen>>
    /\ UNCHANGED <<peerVars, flag_written>>

\* a credentials check that looks at the URL only
CredentialsMissing_KeyIgnored(c, app) ==
    IF app = "radarr" THEN c.RADARR_URL = "" ELSE c.SONARR_URL = ""

\* "if not radarr_url" / "if not api_key" (src/app.py 367-373, 449-455)
CredentialsMissing(c, app) ==
    IF app = "radarr"
    THEN c.RADARR_URL = "" \/ c.RADARR_API_KEY = ""
    ELSE c.SONARR_URL = "" \/ c.SONARR_API_KEY = ""

\* cutoff, the credentials check and the tag lookup (src/app.py 360-380, 449-463)
GetTags ==
    /\ pc = "tags"
    /\ \E d \in Advances, ok \in BOOLEAN :
        LET found == IF job.APP = "radarr"
                     THEN RadarrFindTag(radarr.tag, job.TAG_LABEL)
                     ELSE SonarrFindTag(sonarr.tag, job.TAG_LABEL)
        IN  /\ Tick_(d)
            /\ cutoff' = clock' - job.DAYS_OLD * MinutesPerDay
            /\ calls' = IF CredentialsMissing(cfg, job.APP) THEN calls
                         ELSE Append(calls, Call("tag", 0, ok))
            /\ IF CredentialsMissing(cfg, job.APP)
               THEN /\ raised' = <<"config_error">>
                    /\ pc' = "finish"
                    /\ UNCHANGED tag_id
               ELSE IF ~ok
               THEN /\ raised' = <<"api_error">>
                    /\ pc' = "finish"
                    /\ UNCHANGED tag_id
               ELSE IF found = <<>>
               THEN /\ raised' = <<"tag_not_found">>
                    /\ pc' = "finish"
                    /\ UNCHANGED tag_id
               ELSE /\ raised' = <<>>
                    /\ pc' = "list"
                    /\ tag_id' = found[1]
    /\ UNCHANGED <<envVars, store, saveFailsLeft, save_exc, readVars, state, selected, overall_fail,
                   exit_code, driversLeft, nextUid, run_state, now, tagged_series,
                   to_delete, idx, flags, chosen, attempted>>
    /\ UNCHANGED <<peerVars, flag_written>>

\* pc after the candidate loop of the job
\* a second pass after the episode loop of both episode modes
AfterDeletePc_AnyEpisodeMode(j, tagged) ==
    IF j.APP = "sonarr" /\ j.SONARR_DELETE_MODE # "series" /\ tagged # <<>>
    THEN "remaining"
    ELSE "finish"

\* a second pass that a dry run skips
AfterDeletePc_SkipDryRun(j, tagged) ==
    IF j.APP = "sonarr" /\ j.SONARR_DELETE_MODE = "episodes_then_series" /\ tagged # <<>>
        /\ ~j.DRY_RUN
    THEN "remaining"
    ELSE "finish"

AfterDeletePc(j, tagged) ==
    IF j.APP = "sonarr" /\ j.SONARR_DELETE_MODE = "episodes_then_series" /\ tagged # <<>>
    THEN "remaining"
    ELSE "finish"

\* a selection whose count stays in memory until the first outcome is recorded
SelectionDone_Unrecorded(cands, tagged, written) ==
    /\ to_delete' = SortDesc(cands)
    /\ MutateOnly([run_state EXCEPT !.candidates_found = Len(cands)])
    /\ idx' = 1
    /\ pc' = IF cands # <<>> THEN "delete" ELSE AfterDeletePc(job, tagged)

\* the sort, candidates_found and its record (src/app.py 398-401, 484-487, 552-555)
SelectionDone(cands, tagged, written) ==
    /\ to_delete' = SortDesc(cands)
    /\ RecordAndSave([run_state EXCEPT !.candidates_found = Len(cands)], written)
    /\ idx' = 1
    /\ pc' = IF cands # <<>> THEN "delete" ELSE AfterDeletePc(job, tagged)

\* the item listing and, except in the episode modes, the selection
\* (src/app.py 383-401, 465-487)
ListItems ==
    /\ pc = "list"
    /\ \E d \in Advances, ok \in BOOLEAN, written \in SaveOutcomes :
        /\ Tick_(d)
        /\ calls' = Append(calls, Call(IF job.APP = "radarr" THEN "movie" ELSE "series", 0, ok))
        /\ IF ~ok
           THEN /\ raised' = <<"api_error">>
                /\ pc' = "finish"
                /\ UNCHANGED <<now, tagged_series, to_delete, idx, run_state, state,
                               store, saveFailsLeft, save_exc, readVars>>
           ELSE /\ now' = clock'
                /\ IF job.APP = "radarr"
                   THEN /\ tagged_series' = <<>>
                        /\ IF MovieLoopRaises(radarr.movie, tag_id)
                           THEN /\ raised' = <<"value_error">>
                                /\ pc' = "finish"
                                /\ UNCHANGED <<to_delete, idx, run_state, state, store,
                                               saveFailsLeft, save_exc, readVars>>
                           ELSE /\ raised' = <<>>
                                /\ SelectionDone(
                                     MovieCandidates(radarr.movie, tag_id, cutoff, now'),
                                     <<>>, written)
                   ELSE /\ tagged_series' = TaggedSeries(sonarr.series, tag_id)
                        /\ raised' = <<>>
                        /\ IF job.SONARR_DELETE_MODE = "series"
                           THEN SelectionDone(
                                     SeriesCandidates(tagged_series', cutoff, now'),
                                     tagged_series', written)
                           ELSE IF tagged_series' = <<>>
                           THEN SelectionDone(<<>>, <<>>, written)
                           ELSE /\ pc' = "files"
                                /\ idx' = 1
                                /\ to_delete' = <<>>
                                /\ UNCHANGED <<run_state, state, store, saveFailsLeft, save_exc, readVars>>
    /\ UNCHANGED <<envVars, driversLeft, nextUid, selected, overall_fail, exit_code,
                   cutoff, tag_id, flags, chosen, attempted>>
    /\ UNCHANGED <<peerVars, flag_written>>

\* episode modes: the episode files of one tagged series (src/app.py 538-555)
ListFiles ==
    /\ pc = "files"
    /\ \E ok \in BOOLEAN, written \in SaveOutcomes :
        LET sid == tagged_series[idx].id
            found == to_delete \o EpisodeCandidates(
                        sonarr_episode_files_for_series(sonarr, sid), sid, cutoff, now)
        IN  /\ calls' = Append(calls, [Call("episodefile", sid, ok) EXCEPT
                    !.n = IF ok THEN Len(sonarr_episode_files_for_series(sonarr, sid))
                          ELSE 0])
            /\ IF ~ok
               THEN /\ raised' = <<"api_error">>
                    /\ pc' = "finish"
                    /\ UNCHANGED <<to_delete, idx, run_state, state, store, saveFailsLeft, save_exc, readVars>>
               ELSE /\ raised' = <<>>
                    /\ IF idx < Len(tagged_series)
                       THEN /\ to_delete' = found
                            /\ idx' = idx + 1
                            /\ pc' = "files"
                            /\ UNCHANGED <<run_state, state, store, saveFailsLeft, save_exc, readVars>>
                       ELSE SelectionDone(found, tagged_series, written)
    /\ UNCHANGED <<clock, ticksLeft, envVars, driversLeft, nextUid, selected,
                   overall_fail, exit_code, cutoff, now, tag_id, tagged_series, flags,
                   chosen, attempted>>
    /\ UNCHANGED <<peerVars, flag_written>>

(***************************************************************************)
(* The deletion loops.                                                     *)
(***************************************************************************)
CandidateKind(j) ==
    IF j.APP = "radarr" THEN "movie"
    ELSE IF j.SONARR_DELETE_MODE = "series" THEN "series"
    ELSE "episodefile"

DeleteOpOf(kind) ==
    IF kind = "movie" THEN "delete_movie"
    ELSE IF kind = "series" THEN "delete_series"
    ELSE "delete_episode_file"

\* an entry that is stamped when it is built, before the delete call
DeletedEntry_Prestamped(kind, c, dry) ==
    [kind |-> kind, id |-> c.item.id, age_days |-> c.age_days, deleted_at |-> <<0>>,
     dry_run |-> dry]

\* deleted_entry of the three candidate loops (src/app.py 412-422, 497-506, 572-582)
DeletedEntry(kind, c, dry) ==
    IF kind = "episodefile"
    THEN [kind |-> kind, series_id |-> c.sid, id |-> c.item.id,
          age_days |-> c.age_days, deleted_at |-> <<>>, dry_run |-> dry]
    ELSE [kind |-> kind, id |-> c.item.id,
          age_days |-> c.age_days, deleted_at |-> <<>>, dry_run |-> dry]

\* deleted_entry of the second pass (src/app.py 623-631)
SeriesEntry(sid, dry) ==
    [kind |-> "series", id |-> sid, deleted_at |-> <<>>, dry_run |-> dry,
     reason |-> "episodes_then_series_no_files_remain"]

\* len([d for d in run_state["deleted"] if d.get("deleted_at")])
DeletedCount(deleted) ==
    Cardinality({i \in 1..Len(deleted) : Truthy(deleted[i].deleted_at)})

\* a successful delete that does not recount
Stamped_NoRecount(r, entry, t) ==
    [r EXCEPT !.deleted = Append(@, [entry EXCEPT !.deleted_at = <<t>>])]

\* a failed call whose error is lost
Errored_Dropped(r, op, id) == r

\* a successful delete: stamp, append, recount (src/app.py 435-437, 520-522,
\* 591-593, 644-646)
Stamped(r, entry, t) ==
    LET del == Append(r.deleted, [entry EXCEPT !.deleted_at = <<t>>])
    IN  [r EXCEPT !.deleted = del, !.deleted_count = DeletedCount(del)]

\* a failed call: the error is appended (src/app.py 441-444, 526-529, 598-601,
\* 650-653, 657-660)
Errored(r, op, id) == [r EXCEPT !.errors = Append(@, [op |-> op, id |-> id])]

\* a dry-run branch that leaves no trace of the candidate
WouldDelete_Dropped(r, entry) == r

\* the dry-run branch: the entry is appended, nothing else (src/app.py 424-426,
\* 508-510, 584-586, 633-635)
WouldDelete(r, entry) == [r EXCEPT !.deleted = Append(@, entry)]

\* the dry-run test left out
DryRunBranch_Ignored(j) == FALSE

\* "if dry_run:" in the four loops (src/app.py 424, 508, 584, 633)
DryRunBranch(j) == j.DRY_RUN

\* a failed delete that parks the job until somebody looks at it
LoopPc_WaitOnFailure(ok, i, n, after) ==
    IF ~ok THEN "wait" ELSE IF i < n THEN "delete" ELSE after

\* a loop that comes back to its candidates after a failed last delete
LoopPc_RetryFailed(ok, i, n, after) == IF i < n \/ ~ok THEN "delete" ELSE after

\* a failed delete that ends the loop
LoopPc_AbortOnFailure(ok, i, n, after) == IF ok /\ i < n THEN "delete" ELSE after

\* the except clause of a delete swallows the failure and the for loop goes
\* on with the next candidate (src/app.py 441-446, 526-531, 598-603)
LoopPc(ok, i, n, after) == IF i < n THEN "delete" ELSE after

\* the remaining-files test left out
NoFilesRemain_Unchecked(remaining) == TRUE

\* "if not remaining:" (src/app.py 620)
NoFilesRemain(remaining) == remaining = <<>>

\* one iteration of the candidate loop (src/app.py 403-446, 489-531, 560-603)
DeleteCandidate ==
    /\ pc = "delete"
    /\ LET c == to_delete[idx]
           kind == CandidateKind(job)
           op == DeleteOpOf(kind)
           entry == DeletedEntry(kind, c, job.DRY_RUN)
       IN  IF DryRunBranch(job)
           THEN /\ MutateOnly(WouldDelete(run_state, entry))
                /\ UNCHANGED <<calls, radarr, sonarr>>
                /\ idx' = IF idx < Len(to_delete) THEN idx + 1 ELSE 1
                /\ pc' = LoopPc(TRUE, idx, Len(to_delete), AfterDeletePc(job, tagged_series))
           ELSE \E ok \in BOOLEAN, written \in SaveOutcomes :
                /\ calls' = Append(calls, DeleteCall(kind, op, c.item.id, ok))
                /\ idx' = IF idx < Len(to_delete) THEN idx + 1 ELSE 1
                /\ pc' = LoopPc(ok, idx, Len(to_delete), AfterDeletePc(job, tagged_series))
                /\ radarr' = IF ok /\ kind = "movie"
                             THEN RemoteDeleteMovie(radarr, c.item.id) ELSE radarr
                /\ sonarr' = IF ok /\ kind = "series"
                             THEN RemoteDeleteSeries(sonarr, c.item.id)
                             ELSE IF ok /\ kind = "episodefile"
                             THEN RemoteDeleteEpisodeFile(sonarr, c.item.id)
                             ELSE sonarr
                /\ IF ok
                   THEN RecordAndSave(Stamped(run_state, entry, clock), written)
                   ELSE RecordAndSave(Errored(run_state, op, c.item.id), written)
    /\ UNCHANGED <<clock, ticksLeft, cfg, driversLeft, nextUid, selected, overall_fail,
                   exit_code, cutoff, now, tag_id, tagged_series, to_delete, raised,
                   flags, chosen, attempted>>
    /\ UNCHANGED <<peerVars, flag_written>>

\* the second pass moves on to the next tagged series
NextSeries ==
    /\ idx' = IF idx < Len(tagged_series) THEN idx + 1 ELSE 1
    /\ pc' = IF idx < Len(tagged_series) THEN "remaining" ELSE "finish"

\* episodes_then_series: the remaining-files query of one tagged series
\* (src/app.py 606-635, 657-662)
CheckRemaining ==
    /\ pc = "remaining"
    /\ \E ok \in BOOLEAN, written \in SaveOutcomes :
        LET sid == tagged_series[idx].id
            remaining == sonarr_episode_files_for_series(sonarr, sid)
        IN  /\ calls' = Append(calls, [Call("episodefile", sid, ok) EXCEPT
                                    !.pass = 2,
                                    !.n = IF ok THEN Len(remaining) ELSE 0])
            /\ IF ~ok
               THEN /\ RecordAndSave(Errored(run_state, "episodefile", sid), written)
                    /\ NextSeries
               ELSE IF ~NoFilesRemain(remaining)
               THEN /\ UNCHANGED <<run_state, state, store, saveFailsLeft, save_exc, readVars>>
                    /\ NextSeries
               ELSE IF DryRunBranch(job)
               THEN /\ MutateOnly(WouldDelete(run_state, SeriesEntry(sid, job.DRY_RUN)))
                    /\ NextSeries
               ELSE /\ UNCHANGED <<run_state, state, store, saveFailsLeft, save_exc, readVars, idx>>
                    /\ pc' = "remove_series"
    /\ UNCHANGED <<clock, ticksLeft, envVars, driversLeft, nextUid, selected,
                   overall_fail, exit_code, cutoff, now, tag_id, tagged_series,
                   to_delete, raised, flags, chosen, attempted>>
    /\ UNCHANGED <<peerVars, flag_written>>

\* episodes_then_series: the removal of a series without files (src/app.py 637-655)
RemoveSeries ==
    /\ pc = "remove_series"
    /\ \E ok \in BOOLEAN, written \in SaveOutcomes :
        LET sid == tagged_series[idx].id
        IN  /\ calls' = Append(calls, [DeleteCall("series", "delete_series", sid, ok)
                                        EXCEPT !.pass = 2])
            /\ sonarr' = IF ok THEN RemoteDeleteSeries(sonarr, sid) ELSE sonarr
            /\ IF ok
               THEN RecordAndSave(Stamped(run_state, SeriesEntry(sid, job.DRY_RUN), clock),
                                  written)
               ELSE RecordAndSave(Errored(run_state, "delete_series", sid), written)
    /\ NextSeries
    /\ UNCHANGED <<clock, ticksLeft, cfg, radarr, driversLeft, nextUid, selected,
                   overall_fail, exit_code, cutoff, now, tag_id, tagged_series,
                   to_delete, raised, flags, chosen, attempted>>
    /\ UNCHANGED <<peerVars, flag_written>>

(***************************************************************************)
(* The end of run_job and main's handling of its outcome.                  *)
(***************************************************************************)
\* an escaping exception whose message is not kept
Classified_NoMessage(r, exc) ==
    IF exc # <<>>
    THEN [r EXCEPT !.status = "failed"]
    ELSE [r EXCEPT !.status = IF r.errors = <<>> THEN "ok" ELSE "ok_with_errors"]

\* an escaping exception that is counted as one more error of a completed run
Classified_NeverFailed(r, exc) ==
    IF exc # <<>>
    THEN [r EXCEPT !.status = "ok_with_errors",
                   !.errors = Append(@, [op |-> exc[1], id |-> 0])]
    ELSE [r EXCEPT !.status = IF r.errors = <<>> THEN "ok" ELSE "ok_with_errors"]

\* the status of the run (src/app.py 667-672)
Classified(r, exc) ==
    IF exc # <<>>
    THEN [r EXCEPT !.status = "failed", !.errors = Append(@, [op |-> exc[1], id |-> 0])]
    ELSE [r EXCEPT !.status = IF r.errors = <<>> THEN "ok" ELSE "ok_with_errors"]

\* a finally block that stamps nothing
Finalized_NoStamp(r, finished) == r

\* the finally block (src/app.py 673-676)
Finalized(r, finished) ==
    [r EXCEPT !.finished_at = <<finished>>,
              !.duration_seconds = <<finished - r.started_at>>]

\* a driver that forgets the failures of the jobs before the last one
OverallFail_LastOnly(prev, exc) == exc # <<>>

\* main's except clause: overall_fail = True (src/app.py 722-723)
OverallFail(prev, exc) == prev \/ exc # <<>>

\* a driver whose loop ends at the first job that raises
Remaining_StopOnRaise(sel, exc) == IF exc # <<>> THEN <<>> ELSE Tail(sel)

\* "for job in selected": the except clause swallows the exception and the
\* loop goes on with the next job (src/app.py 718-726)
Remaining(sel, exc) == Tail(sel)

\* status, finalization, the last record, and main's except/finally for the
\* job (src/app.py 667-681, 720-726)
Finish ==
    /\ pc = "finish"
    /\ \E d \in Advances, written \in SaveOutcomes :
        /\ Tick_(d)
        /\ RecordAndSave(Finalized(Classified(run_state, raised), clock'), written)
    /\ overall_fail' = OverallFail(overall_fail, raised)
    /\ flags' = clear_run_now_flag(flags, job.id)
    /\ selected' = Remaining(selected, raised)
    /\ attempted' = [attempted EXCEPT ![Len(attempted)].outcome =
                        IF raised # <<>> THEN "raised" ELSE "returned"]
    /\ pc' = "job"
    /\ UNCHANGED <<envVars, driversLeft, nextUid, exit_code, cutoff, now, tag_id,
                   tagged_series, to_delete, idx, raised, calls, chosen>>
    /\ UNCHANGED <<peerVars, flag_written>>

\* the web UI's "Run now" button (src/webui.py 1378-1391): the marker file of
\* the job is written, whatever the driver is doing
\* the uid of the run of job_id that is between its start and its finally block
RunInProgress(job_id) ==
    IF pc \notin {"idle", "job"} /\ job.id = job_id THEN run_state.uid ELSE 0

jobs_run_now ==
    /\ \E job_id \in JobIdsOf(cfg.JOBS) :
        /\ flags' = flags \cup {job_id}
        /\ flag_written' = [flag_written EXCEPT ![job_id] = RunInProgress(job_id)]
    /\ UNCHANGED <<clock, ticksLeft, envVars, store, saveFailsLeft, save_exc, readVars, driversLeft,
                   nextUid, pc, state, selected, overall_fail, exit_code, jobVars,
                   chosen, attempted>>
    /\ UNCHANGED peerVars

(***************************************************************************)
(* Initial states.                                                         *)
(***************************************************************************)
KeepTag == [id |-> 1, label |-> TagLabel]
OtherTag == [id |-> 2, label |-> "other"]
\* the remote tag list: with or without the job's tag
TagLists == {<<OtherTag, KeepTag>>, <<OtherTag>>}
TagChoices == {KeepTag.id, OtherTag.id}

Job(id, app, mode, dry) ==
    [id |-> id, enabled |-> TRUE, APP |-> app, TAG_LABEL |-> TagLabel,
     DAYS_OLD |-> IntValue(DaysOld), DRY_RUN |-> dry, SONARR_DELETE_MODE |-> mode]

\* config.json with the URLs and API keys of both applications in place
Config(jobs) ==
    [JOBS |-> jobs,
     RADARR_URL |-> "http://radarr:7878", RADARR_API_KEY |-> "key",
     SONARR_URL |-> "http://sonarr:8989", SONARR_API_KEY |-> "key",
     HTTP_TIMEOUT_SECONDS |-> Digits(30)]

Movie(id, tg, t) == [id |-> id, tags |-> {tg}, added |-> Iso(t)]
Series(id, tg, t) == [id |-> id, tags |-> {tg}, added |-> Iso(t)]
File(id, sid, t) == [id |-> id, seriesId |-> sid, dateAdded |-> Iso(t)]

\* Radarr libraries: two movies, each with or without the job's tag, of any age
RadarrLibs ==
    {[tag |-> tl, movie |-> <<Movie(1, x[1], x[2]), Movie(2, x[3], x[4])>>] :
        tl \in TagLists,
        x \in TagChoices \X AddedTimes \X TagChoices \X AddedTimes}

\* Sonarr libraries for the series mode: two series, each with or without the
\* tag, of any age; series 1 has an old and a young file
SonarrSeriesLibs ==
    {[tag |-> tl,
      series |-> <<Series(1, x[1], x[2]), Series(2, x[3], x[4])>>,
      episodefile |-> <<File(1, 1, Old), File(2, 1, Recent)>>] :
        tl \in TagLists,
        x \in TagChoices \X AddedTimes \X TagChoices \X AddedTimes}

\* Sonarr libraries for the episode modes: series 1 (young) holds files 1 and 2,
\* series 2 (old) holds file 3; every file may be absent
FileSeq(id, sid, a) == IF a = <<>> THEN <<>> ELSE <<File(id, sid, a[1])>>

SonarrEpisodeLibs ==
    {[tag |-> tl,
      series |-> <<Series(1, x[1], Recent), Series(2, x[2], Old)>>,
      episodefile |-> FileSeq(1, 1, x[3]) \o FileSeq(2, 1, x[4]) \o FileSeq(3, 2, x[5])] :
        tl \in TagLists,
        x \in TagChoices \X TagChoices
              \X {<<>>, <<Old>>, <<Recent>>}
              \X {<<>>, <<Old>>, <<AtCutoff>>}
              \X {<<>>, <<Old>>}}

\* the library of the application the job does not talk to
DefaultRadarr == [tag |-> <<OtherTag, KeepTag>>, movie |-> <<Movie(1, KeepTag.id, Old)>>]
DefaultSonarr ==
    [tag |-> <<OtherTag, KeepTag>>,
     series |-> <<Series(1, KeepTag.id, Old)>>,
     episodefile |-> <<File(1, 1, Old)>>]

InitProcess ==
    /\ clock = StartClock
    /\ store = EmptyState
    /\ nextUid = 1
    /\ pc = "idle"
    /\ state = EmptyState
    /\ selected = <<>>
    /\ overall_fail = FALSE
    /\ exit_code = <<>>
    /\ run_state = InitialRunState(normalize_job(Job("A", "radarr", "episodes_only", TRUE)),
                                   0, 0)
    /\ cutoff = 0
    /\ now = 0
    /\ tag_id = 0
    /\ tagged_series = <<>>
    /\ to_delete = <<>>
    /\ idx = 1
    /\ raised = <<>>
    /\ calls = <<>>
    /\ flags = {}
    /\ save_exc = <<>>
    /\ ui_seen = <<>>
    /\ peer_state = EmptyState
    /\ peer_raised = <<>>
    /\ flag_written = [j \in JobIds |-> 0]
    /\ peer_run = InitialRunState(normalize_job(Job("A", "radarr", "episodes_only", TRUE)),
                                  0, 0)
    /\ chosen = <<>>
    /\ attempted = <<>>

\* One driver process runs one job, of any application, mode and dry-run
\* setting, against any library of the sets above.
Init ==
    /\ InitProcess
    /\ peer_pc = "off"
    /\ readsLeft = 0
    /\ ticksLeft = 0
    /\ saveFailsLeft = MaxSaveFailures
    /\ driversLeft = 1
    /\ \E app \in {"radarr", "sonarr"}, mode \in Modes, dry \in BOOLEAN :
        /\ app = "radarr" => mode = "episodes_only"
        /\ cfg = Config(<<Job("A", app, mode, dry)>>)
        /\ radarr \in IF app = "radarr" THEN RadarrLibs ELSE {DefaultRadarr}
        /\ sonarr \in IF app = "radarr" THEN {DefaultSonarr}
                      ELSE IF mode = "series" THEN SonarrSeriesLibs
                      ELSE SonarrEpisodeLibs

\* The history scenario: several driver processes, one after the other, over
\* a configuration of two jobs (a Radarr job and a Sonarr job in
\* episodes_then_series mode) and one library.
HistoryRadarr ==
    [tag |-> <<OtherTag, KeepTag>>,
     movie |-> <<Movie(1, KeepTag.id, Old), Movie(2, KeepTag.id, Recent)>>]

HistorySonarr ==
    [tag |-> <<OtherTag, KeepTag>>,
     series |-> <<Series(1, KeepTag.id, Recent)>>,
     episodefile |-> <<File(1, 1, Old)>>]

InitHistory ==
    /\ InitProcess
    /\ peer_pc = "off"
    /\ readsLeft = 0
    /\ ticksLeft = 0
    /\ saveFailsLeft = MaxSaveFailures
    /\ driversLeft = MaxDriverRuns
    /\ \E dry \in BOOLEAN :
        cfg = Config(<<Job("A", "radarr", "episodes_only", dry),
                       Job("B", "sonarr", "episodes_then_series", FALSE)>>)
    /\ radarr = HistoryRadarr
    /\ sonarr = HistorySonarr

Next ==
    \/ DriverStart
    \/ StartJob
    \/ GetTags
    \/ ListItems
    \/ ListFiles
    \/ DeleteCandidate
    \/ CheckRemaining
    \/ RemoveSeries
    \/ Finish
    \/ DriverExit

Spec == Init /\ [][Next]_vars

SpecHistory == InitHistory /\ [][Next]_vars

\* The time scenario: one driver process runs one job while the clock may
\* advance between its steps; the added timestamps of the library come in
\* every textual form and in ages a whole day apart.
Stamps == {Iso(Old), Iso(Aged), Iso(AtCutoff), Naive(Old), Missing, Garbage}

StampedMovie(id, tg, a) == [id |-> id, tags |-> {tg}, added |-> a]
StampedFile(id, sid, a) == [id |-> id, seriesId |-> sid, dateAdded |-> a]

TimeRadarrLibs ==
    {[tag |-> <<OtherTag, KeepTag>>,
      movie |-> <<StampedMovie(1, KeepTag.id, x[1]), StampedMovie(2, x[2], x[3])>>] :
        x \in Stamps \X TagChoices \X Stamps}

TimeSeriesLibs ==
    {[tag |-> <<OtherTag, KeepTag>>,
      series |-> <<StampedMovie(1, KeepTag.id, x[1]), StampedMovie(2, x[2], x[3])>>,
      episodefile |-> <<File(1, 1, Old)>>] :
        x \in Stamps \X TagChoices \X Stamps}

\* series 1 (tagged) holds files 1 and 2, series 2 holds file 3
TimeEpisodeLibs ==
    {[tag |-> <<OtherTag, KeepTag>>,
      series |-> <<Series(1, KeepTag.id, Recent), Series(2, x[1], Old)>>,
      episodefile |-> <<StampedFile(1, 1, x[2]), StampedFile(2, 1, x[3]),
                        StampedFile(3, 2, x[4])>>] :
        x \in TagChoices \X {Iso(Aged), Missing, Garbage}
              \X {Iso(Old), Iso(AtCutoff)}
              \X {Iso(Old), Iso(Aged)}}

InitTime ==
    /\ InitProcess
    /\ peer_pc = "off"
    /\ readsLeft = 0
    /\ ticksLeft = MaxTicks
    /\ saveFailsLeft = 0
    /\ driversLeft = 1
    /\ \E app \in {"radarr", "sonarr"}, mode \in Modes, dry \in BOOLEAN :
        /\ app = "radarr" => mode = "episodes_only"
        /\ cfg = Config(<<Job("A", app, mode, dry)>>)
        /\ radarr \in IF app = "radarr" THEN TimeRadarrLibs ELSE {DefaultRadarr}
        /\ sonarr \in IF app = "radarr" THEN {DefaultSonarr}
                      ELSE IF mode = "series" THEN TimeSeriesLibs
                      ELSE TimeEpisodeLibs

SpecTime == InitTime /\ [][Next]_vars

\* The configuration scenario: one driver runs the two jobs; each URL and API
\* key of config.json may be missing (the empty text).
InitConfig ==
    /\ InitProcess
    /\ peer_pc = "off"
    /\ readsLeft = 0
    /\ ticksLeft = 0
    /\ saveFailsLeft = 0
    /\ driversLeft = 1
    /\ \E dry \in BOOLEAN, x \in {"", "http://radarr:7878"} \X {"", "key"}
                                 \X {"", "http://sonarr:8989"} \X {"", "key"} :
        cfg = [Config(<<Job("A", "radarr", "episodes_only", dry),
                        Job("B", "sonarr", "episodes_then_series", FALSE)>>)
                  EXCEPT !.RADARR_URL = x[1], !.RADARR_API_KEY = x[2],
                         !.SONARR_URL = x[3], !.SONARR_API_KEY = x[4]]
    /\ radarr = HistoryRadarr
    /\ sonarr = HistorySonarr

SpecConfig == InitConfig /\ [][Next]_vars

\* The clamp scenario: one Sonarr job; DAYS_OLD of the job and
\* HTTP_TIMEOUT_SECONDS of config.json hold any raw value, at, next to and far
\* from the ends of the two ranges.
Samples == {-1, 0, 1, 2, 4, 5, 6, 30, 300, 301, 36500, 36501}

RawValues ==
    {IntValue(n) : n \in Samples} \cup {Digits(n) : n \in Samples}
        \cup {FloatValue(n) : n \in {m \in Samples : m >= 0}} \cup {Text, None}

InitClamp ==
    /\ InitProcess
    /\ peer_pc = "off"
    /\ readsLeft = 0
    /\ ticksLeft = 0
    /\ saveFailsLeft = 0
    /\ driversLeft = 1
    /\ \E d \in RawValues, t \in RawValues :
        cfg = [Config(<<[Job("B", "sonarr", "episodes_then_series", FALSE)
                            EXCEPT !.DAYS_OLD = d]>>)
                  EXCEPT !.HTTP_TIMEOUT_SECONDS = t]
    /\ radarr = HistoryRadarr
    /\ sonarr = HistorySonarr

SpecClamp == InitClamp /\ [][Next]_vars

\* load_state of the web UI while no write is under way (src/webui.py 1555, 1618)
ui_load_state ==
    /\ readsLeft > 0
    /\ readsLeft' = readsLeft - 1
    /\ ui_seen' = <<[content |-> load_state(Dumped(store)), before |-> store,
                     after |-> store]>>
    /\ UNCHANGED <<clock, ticksLeft, envVars, store, saveFailsLeft, save_exc, driversLeft,
                   nextUid, pc, state, selected, overall_fail, exit_code, jobVars, flags,
                   chosen, attempted>>
    /\ UNCHANGED <<peerVars, flag_written>>

\* The reader scenario: one driver runs a Sonarr job while the web UI reads
\* the state file.
InitReader ==
    /\ InitProcess
    /\ peer_pc = "off"
    /\ readsLeft = MaxReads
    /\ ticksLeft = 0
    /\ saveFailsLeft = 0
    /\ driversLeft = 1
    /\ \E dry \in BOOLEAN :
        cfg = Config(<<Job("B", "sonarr", "episodes_then_series", dry)>>)
    /\ radarr = HistoryRadarr
    /\ sonarr = HistorySonarr

NextReader == Next \/ ui_load_state

SpecReader == InitReader /\ [][NextReader]_vars

\* The tag scenario: one job against a remote whose tag list holds the job's
\* label under the id 1, under the id 0, under two ids, or not at all.
ZeroTag == [id |-> 0, label |-> TagLabel]
LaterTag == [id |-> 3, label |-> TagLabel]
LabelledTagLists ==
    {<<OtherTag, KeepTag>>, <<OtherTag>>, <<ZeroTag, OtherTag>>, <<KeepTag, LaterTag>>}

InitTags ==
    /\ InitProcess
    /\ peer_pc = "off"
    /\ readsLeft = 0
    /\ ticksLeft = 0
    /\ saveFailsLeft = 0
    /\ driversLeft = 1
    /\ \E app \in {"radarr", "sonarr"}, mode \in Modes, dry \in BOOLEAN,
          tags \in LabelledTagLists, tg \in {0, 1, 3} :
        /\ app = "radarr" => mode = "episodes_only"
        /\ cfg = Config(<<Job("A", app, mode, dry)>>)
        /\ radarr = [tag |-> tags,
                     movie |-> <<Movie(1, tg, Old), Movie(2, OtherTag.id, Old)>>]
        /\ sonarr = [tag |-> tags,
                     series |-> <<Series(1, tg, IF mode = "series" THEN Old ELSE Recent)>>,
                     episodefile |-> <<File(1, 1, Old)>>]

SpecTags == InitTags /\ [][Next]_vars

\* The termination scenario: the configuration scenario with the scheduling
\* of a started driver.  A started driver is one thread that runs to the end
\* of main: whenever one of its steps can be taken (a remote call returns or
\* raises, a record is written) it is taken.  Starting a driver is cron's
\* affair and is not required.
RunStep ==
    \/ StartJob \/ GetTags \/ ListItems \/ ListFiles \/ DeleteCandidate
    \/ CheckRemaining \/ RemoveSeries \/ Finish \/ DriverExit

SpecLive == InitConfig /\ [][Next]_vars /\ WF_vars(RunStep)

\* The preview of the web UI (src/webui.py): what a job would delete, computed
\* from the tag list and the movie list of Radarr at the instant nw.
ui_parse_radarr_date(s) ==
    IF s.form \in IsoForms THEN [raise |-> FALSE, t |-> s.t]
    ELSE [raise |-> TRUE, t |-> 0]

radarr_get(path) == [method |-> "GET", path |-> path]

PreviewRow(m, nw) ==
    [id |-> m.id, added |-> m.added,
     age_days |-> (nw - ui_parse_radarr_date(m.added).t) \div MinutesPerDay]

preview_candidates_Unsorted(rad, j, nw) ==
    LET cut == nw - j.DAYS_OLD * MinutesPerDay
        tag == SelectSeq(rad.tag, LAMBDA t : t.label = j.TAG_LABEL)
        dated == SelectSeq(rad.movie, LAMBDA m :
                    tag[1].id \in m.tags /\ m.added.form # "empty")
        old == SelectSeq(dated, LAMBDA m : ui_parse_radarr_date(m.added).t < cut)
    IN  IF tag = <<>>
        THEN [raise |-> FALSE, error |-> <<"tag_not_found">>, candidates |-> <<>>,
              calls |-> <<radarr_get("/api/v3/tag")>>]
        ELSE [raise |-> \E i \in 1..Len(dated) : ui_parse_radarr_date(dated[i].added).raise,
              error |-> <<>>,
              candidates |-> [i \in 1..Len(old) |-> PreviewRow(old[i], nw)],
              calls |-> <<radarr_get("/api/v3/tag"), radarr_get("/api/v3/movie")>>]

preview_candidates(rad, j, nw) ==
    LET cut == nw - j.DAYS_OLD * MinutesPerDay
        tag == SelectSeq(rad.tag, LAMBDA t : t.label = j.TAG_LABEL)
        dated == SelectSeq(rad.movie, LAMBDA m :
                    tag[1].id \in m.tags /\ m.added.form # "empty")
        old == SelectSeq(dated, LAMBDA m : ui_parse_radarr_date(m.added).t < cut)
    IN  IF tag = <<>>
        THEN [raise |-> FALSE, error |-> <<"tag_not_found">>, candidates |-> <<>>,
              calls |-> <<radarr_get("/api/v3/tag")>>]
        ELSE [raise |-> \E i \in 1..Len(dated) : ui_parse_radarr_date(dated[i].added).raise,
              error |-> <<>>,
              candidates |-> SortDesc([i \in 1..Len(old) |-> PreviewRow(old[i], nw)]),
              calls |-> <<radarr_get("/api/v3/tag"), radarr_get("/api/v3/movie")>>]

\* The two-process scenario: cron starts one driver per job line, so a second
\* driver process, started with --job-id A, runs while the first one runs.  It
\* has its own memory (peer_state, peer_run) and shares the state file, the
\* marker directory and the remote services.  Job A is a dry run here, so the
\* second process changes nothing on the remote side.
peerJob == SelectSeq(list_jobs(cfg), LAMBDA j : j.id = "A")[1]

PeerRecordAndSave(r) ==
    /\ peer_run' = r
    /\ peer_state' = record_run(Alias(peer_state, r), r.job_id, r)
    /\ store' = save_json(store, peer_state', TRUE).content

PeerCandidates ==
    LET tid == RadarrFindTag(radarr.tag, peerJob.TAG_LABEL)[1]
    IN  SortDesc(MovieCandidates(radarr.movie, tid,
                                 clock - peerJob.DAYS_OLD * MinutesPerDay, clock))

RECURSIVE PeerDryRun(_, _, _)
PeerDryRun(r, cands, i) ==
    IF i > Len(cands) THEN r
    ELSE PeerDryRun(WouldDelete(r, DeletedEntry("movie", cands[i], TRUE)), cands, i + 1)

\* main: load_cfg, list_jobs, load_state, the job selected by --job-id
PeerStart ==
    /\ peer_pc = "ready"
    /\ peerJob.enabled
    /\ peer_state' = load_state(Dumped(store))
    /\ peer_pc' = "job"
    /\ UNCHANGED <<clock, ticksLeft, envVars, store, saveFailsLeft, save_exc, readVars,
                   driversLeft, nextUid, pc, state, selected, overall_fail, exit_code,
                   jobVars, flags, chosen, attempted, peer_run, peer_raised>>
    /\ UNCHANGED flag_written

\* run_job: the run_state is created, recorded and saved
PeerStartJob ==
    /\ peer_pc = "job"
    /\ PeerRecordAndSave(InitialRunState(peerJob, 0 - 1, clock))
    /\ peer_pc' = "select"
    /\ UNCHANGED <<clock, ticksLeft, envVars, saveFailsLeft, save_exc, readVars,
                   driversLeft, nextUid, pc, state, selected, overall_fail, exit_code,
                   jobVars, flags, chosen, attempted, peer_raised>>
    /\ UNCHANGED flag_written

\* run_job: the tag lookup, the movie listing, the sort and the record of
\* candidates_found
PeerSelect ==
    /\ peer_pc = "select"
    /\ \E ok \in BOOLEAN :
        LET found == RadarrFindTag(radarr.tag, peerJob.TAG_LABEL)
        IN  IF ~ok \/ found = <<>> \/ MovieLoopRaises(radarr.movie, found[1])
            THEN /\ peer_raised' = <<IF ~ok THEN "api_error"
                                     ELSE IF found = <<>> THEN "tag_not_found"
                                     ELSE "value_error">>
                 /\ UNCHANGED <<peer_run, peer_state, store>>
            ELSE /\ peer_raised' = <<>>
                 /\ PeerRecordAndSave(
                        [peer_run EXCEPT !.candidates_found = Len(PeerCandidates)])
    /\ peer_pc' = "finish"
    /\ UNCHANGED <<clock, ticksLeft, envVars, saveFailsLeft, save_exc, readVars,
                   driversLeft, nextUid, pc, state, selected, overall_fail, exit_code,
                   jobVars, flags, chosen, attempted>>
    /\ UNCHANGED flag_written

\* run_job: the dry-run loop, which saves nothing, then the status, the finally
\* block with the last record and save; main: the marker is cleared
PeerFinish ==
    /\ peer_pc = "finish"
    /\ LET looped == IF peer_raised = <<>>
                     THEN PeerDryRun(peer_run, PeerCandidates, 1) ELSE peer_run
       IN  PeerRecordAndSave(Finalized(Classified(looped, peer_raised), clock))
    /\ flags' = clear_run_now_flag(flags, peerJob.id)
    /\ peer_pc' = "done"
    /\ UNCHANGED <<clock, ticksLeft, envVars, saveFailsLeft, save_exc, readVars,
                   driversLeft, nextUid, pc, state, selected, overall_fail, exit_code,
                   jobVars, chosen, attempted, peer_raised>>
    /\ UNCHANGED flag_written

InitPeers ==
    /\ InitProcess
    /\ peer_pc = "ready"
    /\ readsLeft = 0
    /\ ticksLeft = 0
    /\ saveFailsLeft = 0
    /\ driversLeft = 1
    /\ cfg = Config(<<Job("A", "radarr", "episodes_only", TRUE),
                      Job("B", "sonarr", "episodes_then_series", FALSE)>>)
    /\ radarr = HistoryRadarr
    /\ sonarr = HistorySonarr

NextPeers ==
    \/ Next
    \/ PeerStart
    \/ PeerStartJob
    \/ PeerSelect
    \/ PeerFinish

SpecPeers == InitPeers /\ [][NextPeers]_vars

\* The driver scenario: the history scenario with the web UI writing run-now
\* markers while the drivers run.
NextDriver ==
    \/ Next
    \/ jobs_run_now

SpecDriver == InitHistory /\ [][NextDriver]_vars

(***************************************************************************)
(* Vocabulary of the properties.                                           *)
(***************************************************************************)
RunKind(r) ==
    IF r.app = "radarr" THEN "movie"
    ELSE IF r.sonarr_delete_mode = "series" THEN "series"
    ELSE "episodefile"

IsDelete(c) == c.op \in DeleteOps
\* a remaining-files query of the second pass
IsRemainingQuery(c) == c.op = "episodefile" /\ c.pass = 2
\* the delete calls of the candidate loop, in the order issued
CandidateDeletes == SelectSeq(calls, LAMBDA c : IsDelete(c) /\ c.pass = 1)

Completed == run_state.status \in {"ok", "ok_with_errors"}
EpisodesThenSeries == run_state.sonarr_delete_mode = "episodes_then_series"

SeriesPresent(sid) == \E k \in 1..Len(sonarr.series) : sonarr.series[k].id = sid
SeriesDeleteCalls(sid) ==
    {k \in 1..Len(calls) : calls[k].op = "delete_series" /\ calls[k].id = sid}
\* deleted holds an entry for the series, stamped or not
SeriesEntries(sid, stamped) ==
    {k \in 1..Len(run_state.deleted) :
        /\ run_state.deleted[k].kind = "series"
        /\ run_state.deleted[k].id = sid
        /\ (run_state.deleted[k].deleted_at # <<>>) = stamped}

\* the ids of the remote tags that bear the label of the run's job
JobTagIds ==
    LET tags == IF run_state.app = "radarr" THEN radarr.tag ELSE sonarr.tag
    IN  {tags[k].id : k \in {n \in 1..Len(tags) : tags[n].label = run_state.tag_label}}

TargetTagged(c) == c.target # <<>> /\ c.target[1].tags \cap JobTagIds # {}
TargetOld(c) ==
    /\ c.target # <<>>
    /\ c.target[1].added.form \in IsoForms
    /\ c.target[1].added.t < cutoff

(***************************************************************************)
(* C1.  A dry-run job issues no call to a delete endpoint, at any point of *)
(* the run, in any mode and for any library.                               *)
(***************************************************************************)
C1_DryRunNoDeleteCall ==
    run_state.dry_run => \A i \in 1..Len(calls) : ~IsDelete(calls[i])

\* a finished dry run in episodes_then_series mode that recorded a would-delete
\* episode file and a would-delete series
C1_Witness ==
    /\ run_state.dry_run
    /\ run_state.status = "ok"
    /\ EpisodesThenSeries
    /\ \E i, k \in 1..Len(run_state.deleted) :
        /\ run_state.deleted[i].kind = "episodefile"
        /\ run_state.deleted[k].kind = "series"

(***************************************************************************)
(* C2.  episodes_then_series: a series whose remaining-files query reports *)
(* a file is never deleted; a series whose query reports none is deleted   *)
(* (or recorded as would-delete, without a call, under dry-run).           *)
(***************************************************************************)
\* in every state: a delete_series call follows at once a query of the same
\* series that succeeded and reported no file
SeriesDeleteGuarded ==
    EpisodesThenSeries =>
        \A k \in 1..Len(calls) :
            calls[k].op = "delete_series" =>
                /\ k > 1
                /\ IsRemainingQuery(calls[k - 1])
                /\ calls[k - 1].ok
                /\ calls[k - 1].id = calls[k].id
                /\ calls[k - 1].n = 0

\* at normal completion every tagged series has been queried exactly once
EverySeriesQueried ==
    (EpisodesThenSeries /\ Completed) =>
        \A n \in 1..Len(tagged_series) :
            Cardinality({i \in 1..Len(calls) :
                IsRemainingQuery(calls[i]) /\ calls[i].id = tagged_series[n].id}) = 1

\* the claim as stated: with no file reported the series is gone from the
\* remote library after a run that is not a dry run
C2_Original ==
    /\ SeriesDeleteGuarded
    /\ EverySeriesQueried
    /\ (EpisodesThenSeries /\ Completed) =>
        \A i \in 1..Len(calls) :
            (IsRemainingQuery(calls[i]) /\ calls[i].ok) =>
                IF calls[i].n > 0
                THEN SeriesDeleteCalls(calls[i].id) = {} /\ SeriesPresent(calls[i].id)
                ELSE IF run_state.dry_run
                THEN /\ SeriesDeleteCalls(calls[i].id) = {}
                     /\ Cardinality(SeriesEntries(calls[i].id, FALSE)) = 1
                ELSE ~SeriesPresent(calls[i].id)

\* C2 as amended: with no file reported one delete_series call is issued for
\* the series; the series is gone and its entry stamped when the call
\* succeeds, and the series stays and an error is recorded when it fails
C2_Amended ==
    /\ SeriesDeleteGuarded
    /\ EverySeriesQueried
    /\ (EpisodesThenSeries /\ Completed) =>
        \A i \in 1..Len(calls) :
            (IsRemainingQuery(calls[i]) /\ calls[i].ok) =>
                IF calls[i].n > 0
                THEN SeriesDeleteCalls(calls[i].id) = {} /\ SeriesPresent(calls[i].id)
                ELSE IF run_state.dry_run
                THEN /\ SeriesDeleteCalls(calls[i].id) = {}
                     /\ Cardinality(SeriesEntries(calls[i].id, FALSE)) = 1
                ELSE /\ SeriesDeleteCalls(calls[i].id) = {i + 1}
                     /\ IF calls[i + 1].ok
                        THEN /\ ~SeriesPresent(calls[i].id)
                             /\ Cardinality(SeriesEntries(calls[i].id, TRUE)) = 1
                        ELSE /\ SeriesPresent(calls[i].id)
                             /\ SeriesEntries(calls[i].id, TRUE) = {}
                             /\ \E e \in 1..Len(run_state.errors) :
                                    run_state.errors[e] =
                                        [op |-> "delete_series", id |-> calls[i].id]

\* a completed run that deleted an episode file, kept a series that still has
\* a file and removed a series that has none
C2_Witness ==
    /\ EpisodesThenSeries
    /\ ~run_state.dry_run
    /\ Completed
    /\ \E d \in 1..Len(calls) : calls[d].op = "delete_episode_file" /\ calls[d].ok
    /\ \E i, k \in 1..Len(calls) :
        /\ IsRemainingQuery(calls[i]) /\ calls[i].ok /\ calls[i].n > 0
        /\ SeriesPresent(calls[i].id)
        /\ IsRemainingQuery(calls[k]) /\ calls[k].ok /\ calls[k].n = 0
        /\ ~SeriesPresent(calls[k].id)

(***************************************************************************)
(* C3.  No remote entity is deleted by a job unless it carries the job's   *)
(* tag (an episode file: its series does) and its own added timestamp is   *)
(* strictly before the cutoff, in every mode, the series deletions of the  *)
(* episodes_then_series second pass included.                              *)
(***************************************************************************)
\* the claim as stated
C3_Original ==
    \A i \in 1..Len(calls) :
        (IsDelete(calls[i]) /\ calls[i].ok) =>
            TargetTagged(calls[i]) /\ TargetOld(calls[i])

\* C3 as amended: the target of a successful delete call carries the job's
\* tag; a candidate of the first pass is also strictly older than the cutoff;
\* a series deleted by the second pass is one whose remaining-files query just
\* reported no file, whatever its own added timestamp
C3_Amended ==
    \A i \in 1..Len(calls) :
        (IsDelete(calls[i]) /\ calls[i].ok) =>
            /\ TargetTagged(calls[i])
            /\ IF calls[i].pass = 1
               THEN TargetOld(calls[i])
               ELSE /\ i > 1
                    /\ IsRemainingQuery(calls[i - 1])
                    /\ calls[i - 1].ok
                    /\ calls[i - 1].id = calls[i].id
                    /\ calls[i - 1].n = 0

\* a run that deleted an old episode file in the first pass and, in the second
\* pass, a tagged series younger than the cutoff
C3_Witness ==
    \E i, k \in 1..Len(calls) :
        /\ calls[i].op = "delete_episode_file" /\ calls[i].ok
        /\ TargetTagged(calls[i]) /\ TargetOld(calls[i])
        /\ calls[k].op = "delete_series" /\ calls[k].pass = 2 /\ calls[k].ok
        /\ TargetTagged(calls[k]) /\ ~TargetOld(calls[k])

(***************************************************************************)
(* C4.  In a job that is not a dry run a failed delete call never stops    *)
(* the run: every later candidate still gets its own delete attempt, and   *)
(* the job completes normally with status ok_with_errors.                  *)
(***************************************************************************)
\* how many candidates the loop has gone through at this point of the run
CandidatesPassed ==
    IF pc = "delete" THEN idx - 1
    ELSE IF pc \in {"tags", "list", "files"} \/ raised # <<>> THEN 0
    ELSE Len(to_delete)

FailedDeletes == Cardinality({i \in 1..Len(calls) : IsDelete(calls[i]) /\ ~calls[i].ok})
FailedRemainingQueries ==
    Cardinality({i \in 1..Len(calls) : IsRemainingQuery(calls[i]) /\ ~calls[i].ok})

\* the claim as stated
C5_Original == Completed => Len(run_state.errors) = FailedDeletes

\* C5 as amended: errors counts the failed delete attempts and the failed
\* remaining-files queries of the episodes_then_series second pass
C5_Amended ==
    Completed => Len(run_state.errors) = FailedDeletes + FailedRemainingQueries

\* a completed run with a failed delete and a failed remaining-files query
C5_Witness ==
    /\ Completed
    /\ FailedDeletes >= 1
    /\ FailedRemainingQueries >= 1

(***************************************************************************)
(* C6.  For a job that is not a dry run, in every run state recorded (in   *)
(* memory or on disk), deleted_count is the number of entries of deleted   *)
(* whose deleted_at is set.                                                *)
(***************************************************************************)
RecordsOf(st) ==
    UNION ({Range(st.last_run), Range(st.run_history)}
           \cup {Range(st.last_runs[j]) : j \in JobIds}
           \cup {Range(st.run_history_by_job[j]) : j \in JobIds})

C6_DeletedCountMatches ==
    \A r \in RecordsOf(state) \cup RecordsOf(store) \cup {run_state} :
        ~r.dry_run =>
            r.deleted_count =
                Cardinality({i \in 1..Len(r.deleted) : r.deleted[i].deleted_at # <<>>})

\* a persisted record of a run that deleted something and also met a failure
C6_Witness ==
    \E r \in RecordsOf(store) :
        /\ ~r.dry_run
        /\ r.status = "ok_with_errors"
        /\ r.deleted_count >= 1
        /\ Len(r.deleted) >= 1

(***************************************************************************)
(* C7.  For a dry-run job the deleted_count field of the finalized run     *)
(* record equals len(deleted): every would-delete candidate is counted.    *)
(***************************************************************************)
C7_DryRunCountsAll ==
    (run_state.dry_run /\ run_state.status # "running") =>
        run_state.deleted_count = Len(run_state.deleted)

(***************************************************************************)
(* C8.  Recording the same run many times during one job execution causes  *)
(* no drift: after the execution run_history and run_history_by_job of the *)
(* job each hold exactly one entry for that run.                           *)
(***************************************************************************)
EntriesOfRun(h, uid) == Cardinality({i \in 1..Len(h) : h[i].uid = uid})

C8_OneEntryPerRun ==
    run_state.status # "running" =>
        /\ EntriesOfRun(state.run_history, run_state.uid) = 1
        /\ EntriesOfRun(state.run_history_by_job[run_state.job_id], run_state.uid) = 1

(***************************************************************************)
(* C9.  run_history and every run_history_by_job list hold at most         *)
(* STATE_HISTORY_LIMIT entries; a record puts the run at the head, keeps   *)
(* the entries that were there in their order behind it, and drops what    *)
(* falls beyond the limit: from a full list exactly the last entry.        *)
(***************************************************************************)
Capped(st) ==
    /\ Len(st.run_history) <= STATE_HISTORY_LIMIT
    /\ \A j \in JobIds : Len(st.run_history_by_job[j]) <= STATE_HISTORY_LIMIT

\* new is old with the run r put at its head, cut at the limit (old as the
\* in-memory list shows it once run_state has become r)
Pushed(old, new, r) ==
    LET shown == AliasSeq(old, r)
    IN  /\ new # <<>>
        /\ new[1] = r
        /\ Len(new) = IF Len(old) < STATE_HISTORY_LIMIT
                      THEN Len(old) + 1 ELSE STATE_HISTORY_LIMIT
        /\ \A i \in 2..Len(new) : new[i] = shown[i - 1]

\* a step of run_job leaves a list as it is (but for the mutation of the
\* run_state it holds) or pushes the run onto it; the lists of the other jobs
\* stay as they are
HistoryStep ==
    pc # "idle" =>
        /\ \/ state'.run_history = AliasSeq(state.run_history, run_state')
           \/ Pushed(state.run_history, state'.run_history, run_state')
        /\ \A j \in JobIds :
            \/ state'.run_history_by_job[j] =
                    AliasSeq(state.run_history_by_job[j], run_state')
            \/ /\ j = run_state'.job_id
               /\ Pushed(state.run_history_by_job[j], state'.run_history_by_job[j],
                         run_state')

C9_HistoryCapped ==
    [][Capped(state') /\ Capped(store') /\ HistoryStep]_vars

\* a full global history that received the first record of a later run: the
\* head is the new run, the entries behind it are of the run before
C9_Witness ==
    /\ Len(state.run_history) = STATE_HISTORY_LIMIT
    /\ Len(store.run_history) = STATE_HISTORY_LIMIT
    /\ pc = "tags"
    /\ state.run_history[1] = run_state
    /\ \A i \in 2..STATE_HISTORY_LIMIT : state.run_history[i].uid = run_state.uid - 1

(***************************************************************************)
(* C10.  The four views are updated together: after a record last_run,     *)
(* last_runs[job], run_history[0] and run_history_by_job[job][0] are the   *)
(* same run, and the persisted store never shows some views updated for a  *)
(* run and the others not.                                                 *)
(***************************************************************************)
ViewsAgree(st) ==
    /\ st.last_run = <<>> =>
        /\ st.run_history = <<>>
        /\ \A j \in JobIds : st.last_runs[j] = <<>> /\ st.run_history_by_job[j] = <<>>
    /\ st.last_run # <<>> =>
        /\ st.last_runs[st.last_run[1].job_id] = st.last_run
        /\ st.run_history # <<>>
        /\ st.run_history[1] = st.last_run[1]
    /\ \A j \in JobIds :
        /\ (st.last_runs[j] = <<>>) <=> (st.run_history_by_job[j] = <<>>)
        /\ st.last_runs[j] # <<>> =>
            /\ st.run_history_by_job[j][1] = st.last_runs[j][1]
            /\ st.last_runs[j][1].job_id = j

C10_ViewsUpdatedTogether ==
    /\ ViewsAgree(state)
    /\ ViewsAgree(store)
    /\ pc \notin {"idle", "job"} => state.last_run = <<run_state>>

\* a store that holds the finished last run of job B and a last run of job A,
\* after a state write has failed
C10_Witness ==
    /\ saveFailsLeft < MaxSaveFailures
    /\ store.last_run # <<>>
    /\ store.last_run[1].job_id = "B"
    /\ store.last_run[1].status # "running"
    /\ store.last_runs["A"] # <<>>
(***************************************************************************)
(* C11.  The final status of a run: ok iff the job body completed with no  *)
(* error recorded, ok_with_errors iff it completed with at least one,      *)
(* failed iff an exception escaped the body; the message of that exception *)
(* is the last entry of errors and the exception reaches the caller.       *)
(* Hence a finished run whose status is not ok has a non-empty errors.     *)
(***************************************************************************)
\* the caller (main) saw the last run_job call raise
CallerSawRaise ==
    /\ attempted # <<>>
    /\ attempted[Len(attempted)].outcome = "raised"
    /\ overall_fail

C11_StatusDetermined ==
    run_state.status # "running" =>
        /\ run_state.status \in {"ok", "ok_with_errors", "failed"}
        /\ run_state.status = "ok" <=> (raised = <<>> /\ run_state.errors = <<>>)
        /\ run_state.status = "ok_with_errors" <=> (raised = <<>> /\ run_state.errors # <<>>)
        /\ run_state.status = "failed" <=> raised # <<>>
        /\ raised # <<>> =>
            /\ run_state.errors # <<>>
            /\ run_state.errors[Len(run_state.errors)] = [op |-> raised[1], id |-> 0]
            /\ CallerSawRaise
        /\ raised = <<>> => ~CallerSawRaise
        /\ run_state.status # "ok" => run_state.errors # <<>>

\* a run that failed because the item listing raised, seen by main
C11_Witness ==
    /\ run_state.status = "failed"
    /\ raised = <<"api_error">>
    /\ Len(calls) = 2
    /\ run_state.errors = <<[op |-> "api_error", id |-> 0]>>
    /\ overall_fail

(***************************************************************************)
(* C12.  Finalization runs once per job execution: when run_job has        *)
(* exited, by return or by raising, the last recorded state of the run has *)
(* a status other than running, finished_at and duration_seconds set; the  *)
(* status is running until then and never changes afterwards.              *)
(***************************************************************************)
FinalRecord(r) ==
    /\ r.status \in {"ok", "ok_with_errors", "failed"}
    /\ r.finished_at # <<>>
    /\ r.duration_seconds = <<r.finished_at[1] - r.started_at>>

C12_FinalizedOnce ==
    [][/\ (pc' \in {"job", "idle"} /\ attempted' # <<>>) =>
            /\ FinalRecord(run_state')
            /\ state'.last_run = <<run_state'>>
            /\ state'.last_runs[run_state'.job_id] = <<run_state'>>
       /\ pc' \notin {"job", "idle"} =>
            /\ run_state'.status = "running"
            /\ run_state'.finished_at = <<>>
            /\ run_state'.duration_seconds = <<>>
       /\ run_state.status # run_state'.status =>
            \/ run_state.status = "running" /\ pc = "finish" /\ run_state'.uid = run_state.uid
            \/ run_state'.status = "running" /\ pc = "job" /\ run_state'.uid # run_state.uid
       /\ (run_state.status # "running" /\ run_state'.uid = run_state.uid) =>
            run_state' = run_state]_vars

\* a driver that has exited after its job raised: the record is finalized
C12_Witness ==
    /\ pc = "idle"
    /\ exit_code = <<1>>
    /\ run_state.status = "failed"
    /\ run_state.finished_at # <<>>
    /\ state.last_run = <<run_state>>

(***************************************************************************)
(* C13.  A job whose tag label does not exist on the remote raises: its    *)
(* final status is failed, errors is non-empty, and it has issued no item  *)
(* listing and no delete call, for Radarr and Sonarr jobs alike.           *)
(***************************************************************************)
IsListing(c) == c.op \in {"movie", "series", "episodefile"}

C13_TagNotFoundStops ==
    (attempted # <<>> /\ JobTagIds = {}) =>
        /\ \A i \in 1..Len(calls) : ~IsListing(calls[i]) /\ ~IsDelete(calls[i])
        /\ pc \notin {"tags", "finish"} =>
            /\ run_state.status = "failed"
            /\ run_state.errors # <<>>
            /\ CallerSawRaise
            /\ calls[1].ok => raised = <<"tag_not_found">>

\* a Sonarr job that failed on a tag list without its label
C13_Witness ==
    /\ run_state.app = "sonarr"
    /\ JobTagIds = {}
    /\ calls = <<Call("tag", 0, TRUE)>>
    /\ run_state.status = "failed"
    /\ raised = <<"tag_not_found">>
(***************************************************************************)
(* C14.  A tagged item (movie, series, episode file of a tagged series) is *)
(* a candidate of the run if and only if its added timestamp is strictly   *)
(* before the cutoff; an item added at the cutoff or later, and an         *)
(* untagged item, is never a candidate.                                    *)
(***************************************************************************)
StrictlyBefore(stamp, cut) == stamp.form \in IsoForms /\ stamp.t < cut

SeriesTagged(sid) ==
    \E k \in 1..Len(sonarr.series) :
        sonarr.series[k].id = sid /\ sonarr.series[k].tags \cap JobTagIds # {}

\* the ids of the items of the remote library that bear the job's tag and
\* were added strictly before the cutoff
EligibleIds ==
    IF job.APP = "radarr"
    THEN {radarr.movie[k].id : k \in {n \in 1..Len(radarr.movie) :
            /\ radarr.movie[n].tags \cap JobTagIds # {}
            /\ StrictlyBefore(radarr.movie[n].added, cutoff)}}
    ELSE IF job.SONARR_DELETE_MODE = "series"
    THEN {sonarr.series[k].id : k \in {n \in 1..Len(sonarr.series) :
            /\ sonarr.series[n].tags \cap JobTagIds # {}
            /\ StrictlyBefore(sonarr.series[n].added, cutoff)}}
    ELSE {sonarr.episodefile[k].id : k \in {n \in 1..Len(sonarr.episodefile) :
            /\ SeriesTagged(sonarr.episodefile[n].seriesId)
            /\ StrictlyBefore(sonarr.episodefile[n].dateAdded, cutoff)}}

CandidateIds(cands) == {cands[i].item.id : i \in 1..Len(cands)}

\* the step in which the selection of the run is completed
SelectionCompletes ==
    /\ pc \in {"list", "files"}
    /\ pc' \in {"delete", "remaining", "finish"}
    /\ raised' = <<>>

C14_CandidateIffOlderThanCutoff ==
    [][SelectionCompletes =>
        /\ cutoff + job.DAYS_OLD * MinutesPerDay \in run_state.started_at..clock
        /\ CandidateIds(to_delete') = EligibleIds
        /\ Len(to_delete') = Cardinality(EligibleIds)
        /\ run_state'.candidates_found = Cardinality(EligibleIds)]_vars

\* an episode selection of one candidate next to a file of a tagged series
\* added exactly at the cutoff and an older file of an untagged series
C14_Witness ==
    /\ pc = "delete"
    /\ idx = 1
    /\ run_state.app = "sonarr"
    /\ Len(to_delete) = 1
    /\ \E i, k \in 1..Len(sonarr.episodefile) :
        /\ SeriesTagged(sonarr.episodefile[i].seriesId)
        /\ sonarr.episodefile[i].dateAdded = Iso(cutoff)
        /\ ~SeriesTagged(sonarr.episodefile[k].seriesId)
        /\ StrictlyBefore(sonarr.episodefile[k].dateAdded, cutoff)

(***************************************************************************)
(* C15.  The age_days of every candidate is the number of whole days from  *)
(* the item's added timestamp to the start of the run (started_at), also   *)
(* when time passes between the start of the run and the selection.        *)
(***************************************************************************)
AddedOf(c) ==
    IF "dateAdded" \in DOMAIN c.item THEN c.item.dateAdded.t ELSE c.item.added.t

\* the entries of deleted that stem from candidates
CandidateEntries == SelectSeq(run_state.deleted, LAMBDA e : "age_days" \in DOMAIN e)

EntriesCarryAge ==
    \A k \in 1..Len(CandidateEntries) :
        \E i \in 1..Len(to_delete) :
            /\ to_delete[i].item.id = CandidateEntries[k].id
            /\ to_delete[i].age_days = CandidateEntries[k].age_days

\* the claim as stated
C15_Original ==
    /\ EntriesCarryAge
    /\ \A i \in 1..Len(to_delete) :
        to_delete[i].age_days =
            (run_state.started_at - AddedOf(to_delete[i])) \div MinutesPerDay

\* C15 as amended: the age is counted up to the instant sampled once, after
\* the item listing has returned; that instant is not before the start of
\* the run and is the same for all the candidates of the run
C15_Amended ==
    /\ EntriesCarryAge
    /\ to_delete # <<>> => run_state.started_at <= now /\ now <= clock
    /\ \A i \in 1..Len(to_delete) :
        to_delete[i].age_days = (now - AddedOf(to_delete[i])) \div MinutesPerDay

\* a candidate recorded with one day more than its age at the start of the run
C15_Witness ==
    /\ run_state.started_at < now
    /\ CandidateEntries # <<>>
    /\ \E i \in 1..Len(to_delete) :
        /\ to_delete[i].item.id = CandidateEntries[1].id
        /\ CandidateEntries[1].age_days =
              (run_state.started_at - AddedOf(to_delete[i])) \div MinutesPerDay + 1

(***************************************************************************)
(* C16.  Candidates are processed oldest first: the selection is in        *)
(* non-increasing age_days order, the delete attempts follow it, and so do *)
(* the candidate entries of deleted; in the episode modes the order is     *)
(* over the files of all the tagged series together.                       *)
(***************************************************************************)
SelectionOver ==
    \/ pc \in {"delete", "remaining", "remove_series"}
    \/ pc \in {"finish", "job", "idle"} /\ raised = <<>>

C16_OldestFirst ==
    /\ SelectionOver =>
        \A i, k \in 1..Len(to_delete) :
            i < k => to_delete[i].age_days >= to_delete[k].age_days
    /\ CandidateDeletes # <<>> => SelectionOver
    /\ \A i \in 1..Len(CandidateDeletes) :
        CandidateDeletes[i].id = to_delete[i].item.id
    /\ \A i, k \in 1..Len(CandidateEntries) :
        i < k => CandidateEntries[i].age_days >= CandidateEntries[k].age_days

\* the files of two series recorded in age order: an old file of series 1, the
\* old file of series 2, then the younger file that series 1 lists first
C16_Witness ==
    /\ Len(CandidateEntries) = 3
    /\ CandidateEntries[1].series_id = 1
    /\ CandidateEntries[2].series_id = 2
    /\ CandidateEntries[3].series_id = 1
    /\ CandidateEntries[3].id < CandidateEntries[1].id
    /\ CandidateEntries[3].age_days < CandidateEntries[2].age_days

(***************************************************************************)
(* C17.  An item whose added timestamp is missing or does not parse is     *)
(* left out of the candidates and does not make the job raise: when the    *)
(* tag exists and every remote call returns, the job completes normally,   *)
(* for movies, series and episode files alike.                             *)
(***************************************************************************)
C17_UnparsableExcluded ==
    /\ \A i \in 1..Len(to_delete) :
        LET c == to_delete[i]
        IN  IF "dateAdded" \in DOMAIN c.item
            THEN c.item.dateAdded.form \in IsoForms
            ELSE c.item.added.form \in IsoForms
    /\ (/\ run_state.status # "running"
        /\ JobTagIds # {}
        /\ \A i \in 1..Len(calls) : calls[i].ok) => Completed
(***************************************************************************)
(* C18.  The driver attempts every selected job exactly once, in list      *)
(* order, whatever the outcome of the jobs before it: a job that raises    *)
(* does not keep a later selected job from being run.                      *)
(***************************************************************************)
AttemptedIds == [i \in 1..Len(attempted) |-> attempted[i].id]

C18_EveryJobAttempted ==
    /\ Len(attempted) <= Len(chosen)
    /\ AttemptedIds = SubSeq(chosen, 1, Len(attempted))
    /\ \A i, k \in 1..Len(attempted) : i # k => attempted[i].uid # attempted[k].uid
    /\ pc = "job" => Len(attempted) + Len(selected) = Len(chosen)
    /\ pc = "idle" => AttemptedIds = chosen

\* the second selected job is running after the first one raised
C18_Witness ==
    /\ chosen = <<"A", "B">>
    /\ Len(attempted) = 2
    /\ attempted[1].outcome = "raised"
    /\ pc = "list"
    /\ run_state.job_id = "B"

(***************************************************************************)
(* C19.  The exit status of a driver that ran its selected jobs is zero if *)
(* and only if every one of them completed without raising (status ok or   *)
(* ok_with_errors); it is non-zero when at least one raised, even when the *)
(* jobs after it succeeded.                                                *)
(***************************************************************************)
\* the last run of the job of an attempt is the run of that attempt
RunOfAttempt(a) == state.last_runs[a.id][1]

C19_ExitStatus ==
    (pc = "idle" /\ chosen # <<>>) =>
        /\ exit_code \in {<<0>>, <<1>>}
        /\ \A i \in 1..Len(attempted) :
            /\ RunOfAttempt(attempted[i]).uid = attempted[i].uid
            /\ attempted[i].outcome = "raised" <=>
                    RunOfAttempt(attempted[i]).status = "failed"
            /\ attempted[i].outcome = "returned" <=>
                    RunOfAttempt(attempted[i]).status \in {"ok", "ok_with_errors"}
        /\ exit_code = <<0>> <=>
                \A i \in 1..Len(attempted) : attempted[i].outcome = "returned"

\* a driver that exited with status 1: its first job raised, its second job
\* completed
C19_Witness ==
    /\ pc = "idle"
    /\ exit_code = <<1>>
    /\ Len(attempted) = 2
    /\ attempted[1].outcome = "raised"
    /\ attempted[2].outcome = "returned"

RaiseExplained ==
    raised # <<>> =>
        \/ calls # <<>> /\ ~calls[Len(calls)].ok /\ raised = <<"api_error">>
        \/ calls # <<>> /\ calls[Len(calls)].ok /\ JobTagIds = {}
                /\ raised = <<"tag_not_found">>

\* errors holds the failed deletes, the failed remaining-files queries and
\* the message of an escaped exception, nothing about the store
ErrorsExplained ==
    attempted # <<>> =>
        Len(run_state.errors) =
            FailedDeletes + FailedRemainingQueries
                + (IF run_state.status = "failed" THEN 1 ELSE 0)

C21_PersistFailureIgnored ==
    /\ save_exc = <<>>
    /\ RaiseExplained
    /\ ErrorsExplained
    /\ pc \notin {"idle", "job"} => state.last_run = <<run_state>>
    /\ (Completed /\ ~run_state.dry_run) =>
        /\ Len(CandidateDeletes) = Len(to_delete)
        /\ \A i \in 1..Len(to_delete) : CandidateDeletes[i].id = to_delete[i].item.id
    /\ run_state.status = "failed" <=> (attempted # <<>> /\ pc \in {"idle", "job"}
                                          /\ raised # <<>>)

\* the last write of a run failed: the file still shows the run as running,
\* the job has deleted an item and completed with status ok
C21_Witness ==
    /\ saveFailsLeft < MaxSaveFailures
    /\ run_state.status = "ok"
    /\ run_state.deleted_count >= 1
    /\ store.last_run # <<>>
    /\ store.last_run[1].uid = run_state.uid
    /\ store.last_run[1].status = "running"
(***************************************************************************)
(* C22.  A job whose application URL or API key is missing fails with      *)
(* status failed and issues no remote call at all; the failure stays with  *)
(* that job: the other selected job is run and its outcome is its own.     *)
(***************************************************************************)
\* the URL or the API key of the application of the run is the empty text
CredentialsAbsent ==
    IF run_state.app = "radarr"
    THEN "" \in {cfg.RADARR_URL, cfg.RADARR_API_KEY}
    ELSE "" \in {cfg.SONARR_URL, cfg.SONARR_API_KEY}

C22_MissingCredentialsFatal ==
    attempted # <<>> =>
        /\ CredentialsAbsent =>
            /\ calls = <<>>
            /\ pc # "tags" => raised = <<"config_error">>
            /\ pc \in {"job", "idle"} =>
                /\ run_state.status = "failed"
                /\ run_state.errors = <<[op |-> "config_error", id |-> 0]>>
                /\ CallerSawRaise
        /\ ~CredentialsAbsent =>
            /\ raised # <<"config_error">>
            /\ pc # "tags" => calls # <<>>
        /\ pc = "idle" => AttemptedIds = chosen

\* the Radarr job failed for want of its API key without a call; the Sonarr
\* job after it deleted an episode file and completed
C22_Witness ==
    /\ pc = "idle"
    /\ cfg.RADARR_URL # ""
    /\ cfg.RADARR_API_KEY = ""
    /\ chosen = <<"A", "B">>
    /\ state.last_runs["A"] # <<>>
    /\ state.last_runs["A"][1].status = "failed"
    /\ run_state.job_id = "B"
    /\ run_state.status = "ok"
    /\ run_state.deleted_count >= 1
    /\ exit_code = <<1>>
(***************************************************************************)
(* C23.  After each candidate's outcome (deleted, failed, or would-delete  *)
(* under dry-run) the run state is recorded and persisted before the next  *)
(* candidate is processed: while candidates are processed the persisted    *)
(* store holds every outcome reached so far, in every mode and for dry-run *)
(* jobs too.  Stated for executions without a failing write.               *)
(***************************************************************************)
\* the job is between its selection and its finalization
Processing == pc \in {"delete", "remaining", "remove_series", "finish"} /\ raised = <<>>

\* the record of the current run in the persisted store, if any
PersistedRun ==
    SelectSeq(store.last_runs[run_state.job_id], LAMBDA r : r.uid = run_state.uid)

C23_OutcomesPersisted ==
    (attempted # <<>> /\ Processing /\ saveFailsLeft = 0 /\ to_delete # <<>>) =>
        /\ PersistedRun # <<>>
        /\ PersistedRun[1].deleted = run_state.deleted
        /\ PersistedRun[1].errors = run_state.errors
(***************************************************************************)
(* C24.  A run record with status running is recorded and persisted before *)
(* the job issues its first remote call: from then until finalization the  *)
(* store's last_runs[job_id] is this run with status running.  Stated for  *)
(* executions in which no write of the state file has failed.              *)
(***************************************************************************)
\* run_job has made its first record and has not reached its finally block
BeforeFinalization ==
    /\ attempted # <<>>
    /\ pc \in {"tags", "list", "files", "delete", "remaining", "remove_series", "finish"}

C24_RunningPersisted ==
    (BeforeFinalization /\ saveFailsLeft = MaxSaveFailures) =>
        /\ Len(store.last_runs[run_state.job_id]) = 1
        /\ store.last_runs[run_state.job_id][1].uid = run_state.uid
        /\ store.last_runs[run_state.job_id][1].started_at = run_state.started_at
        /\ store.last_runs[run_state.job_id][1].status = "running"
        /\ store.last_run[1].uid = run_state.uid

\* a later run of job A has issued remote calls and is the running record of
\* the store, in the place of the finished run before it that the history keeps
C24_Witness ==
    /\ BeforeFinalization
    /\ saveFailsLeft = MaxSaveFailures
    /\ pc = "delete"
    /\ Len(calls) = 2
    /\ run_state.job_id = "A"
    /\ store.last_runs["A"][1].uid = run_state.uid
    /\ store.last_runs["A"][1].status = "running"
    /\ \E i \in 1..Len(store.run_history) :
        /\ store.run_history[i].job_id = "A"
        /\ store.run_history[i].uid < run_state.uid
        /\ store.run_history[i].status # "running"
(***************************************************************************)
(* C25.  In every mode the run record carrying candidates_found equal to   *)
(* the number of selected candidates is recorded and persisted before the  *)
(* first delete call of the run is issued.  Stated for executions in which *)
(* no write of the state file has failed.                                  *)
(***************************************************************************)
\* the selection is over and the run is where delete calls are issued from
DeletesPossible == attempted # <<>> /\ pc \in {"delete", "remaining", "remove_series"}

C25_CandidatesFoundFirst ==
    /\ (DeletesPossible /\ saveFailsLeft = MaxSaveFailures) =>
            /\ PersistedRun # <<>>
            /\ PersistedRun[1].candidates_found = Len(to_delete)
    /\ (attempted # <<>> /\ \E i \in 1..Len(calls) : IsDelete(calls[i])) =>
            run_state.candidates_found = Len(to_delete)

\* two candidates are selected, the store says so, and no delete call has
\* been issued yet
C25_Witness ==
    /\ DeletesPossible
    /\ pc = "delete"
    /\ idx = 1
    /\ Len(to_delete) = 2
    /\ PersistedRun # <<>>
    /\ PersistedRun[1].candidates_found = 2
    /\ \A i \in 1..Len(calls) : ~IsDelete(calls[i])
(***************************************************************************)
(* C26.  Each mode uses only its own delete endpoint: a movie job calls    *)
(* only delete_movie; a series-mode job never lists or deletes episode     *)
(* files; an episodes_only job never calls delete_series, and no series    *)
(* leaves or changes in the library while it runs.                         *)
(***************************************************************************)
CallOps == {calls[i].op : i \in 1..Len(calls)}
EpisodesOnly == run_state.app = "sonarr" /\ run_state.sonarr_delete_mode = "episodes_only"

OwnEndpointOnly ==
    attempted # <<>> =>
        /\ RunKind(run_state) = "movie" => CallOps \subseteq {"tag", "movie", "delete_movie"}
        /\ RunKind(run_state) = "series" => CallOps \subseteq {"tag", "series", "delete_series"}
        /\ EpisodesOnly => CallOps \subseteq {"tag", "series", "episodefile", "delete_episode_file"}
        /\ EpisodesThenSeries =>
                /\ "delete_movie" \notin CallOps
                /\ \A i \in 1..Len(calls) :
                        calls[i].pass = 1 => calls[i].op # "delete_series"

\* a step of an episodes_only run leaves the series of the library alone
SeriesUntouched ==
    (attempted' # <<>> /\ pc # "job" /\ pc # "idle"
        /\ run_state'.app = "sonarr"
        /\ run_state'.sonarr_delete_mode = "episodes_only")
    => sonarr'.series = sonarr.series

C26_OwnEndpointOnly == []OwnEndpointOnly /\ [][SeriesUntouched]_vars

\* an episodes_only run deleted the last episode file of a tagged series and
\* finished; the series is still in the library
C26_Witness ==
    /\ EpisodesOnly
    /\ Completed
    /\ ~run_state.dry_run
    /\ \E i \in 1..Len(calls) :
        /\ calls[i].op = "delete_episode_file"
        /\ calls[i].ok
    /\ \E k \in 1..Len(sonarr.series) :
        /\ sonarr.series[k].tags \cap JobTagIds # {}
        /\ sonarr_episode_files_for_series(sonarr, sonarr.series[k].id) = <<>>
(***************************************************************************)
(* C27.  A failure of a remote call that candidate discovery depends on    *)
(* (tag lookup, movie or series listing, episode-file enumeration of a     *)
(* tagged series before deletion starts) is job-fatal: the job ends with   *)
(* status failed and has issued no delete call.  A failure of a delete     *)
(* call or of a second-pass remaining-files query is recorded in errors    *)
(* and execution continues.                                                *)
(***************************************************************************)
IsPrerequisite(c) ==
    c.op \in {"tag", "movie", "series"} \/ (c.op = "episodefile" /\ c.pass = 1)

FailedPrerequisites == {i \in 1..Len(calls) : IsPrerequisite(calls[i]) /\ ~calls[i].ok}
FailedLater ==
    {i \in 1..Len(calls) : (IsDelete(calls[i]) \/ IsRemainingQuery(calls[i])) /\ ~calls[i].ok}
RemainingQueries == SelectSeq(calls, IsRemainingQuery)

C27_PrerequisiteFatal ==
    attempted # <<>> =>
        /\ FailedPrerequisites # {} =>
            /\ FailedPrerequisites = {Len(calls)}
            /\ \A i \in 1..Len(calls) : ~IsDelete(calls[i])
            /\ run_state.deleted = <<>>
            /\ raised = <<"api_error">>
            /\ pc \in {"finish", "job", "idle"}
            /\ pc # "finish" => run_state.status = "failed"
        /\ \A i \in FailedLater :
            /\ raised = <<>>
            /\ \E k \in 1..Len(run_state.errors) :
                    run_state.errors[k] = [op |-> calls[i].op, id |-> calls[i].id]
            /\ run_state.status \in {"running", "ok_with_errors"}
        /\ (FailedLater # {} /\ run_state.status # "running") =>
            /\ ~run_state.dry_run => Len(CandidateDeletes) = Len(to_delete)
            /\ EpisodesThenSeries =>
                    /\ Len(RemainingQueries) = Len(tagged_series)
                    /\ \A k \in 1..Len(tagged_series) :
                            RemainingQueries[k].id = tagged_series[k].id

\* the episode-file enumeration of the second tagged series failed after the
\* first had returned files: the job failed without a delete call
C27_Witness ==
    /\ run_state.status = "failed"
    /\ Len(calls) = 4
    /\ calls[3].op = "episodefile" /\ calls[3].ok /\ calls[3].n >= 1
    /\ calls[4].op = "episodefile" /\ ~calls[4].ok /\ calls[4].pass = 1
    /\ run_state.deleted = <<>>
    /\ run_state.candidates_found = 0
(***************************************************************************)
(* C28.  In episodes_then_series mode the second pass starts only after    *)
(* the last episode-file delete attempt of the run: no remaining-files     *)
(* query and no series delete precedes an episode-file delete.  The pass   *)
(* queries every tagged series exactly once, those that contributed no     *)
(* candidate included, and it runs, with the real read-only query, when    *)
(* the job is a dry run.                                                   *)
(***************************************************************************)
IsSecondPass(c) == IsRemainingQuery(c) \/ c.op = "delete_series"
EpisodeOutcomes ==
    Cardinality({k \in 1..Len(run_state.deleted) : run_state.deleted[k].kind = "episodefile"})
        + Cardinality({k \in 1..Len(run_state.errors) :
                          run_state.errors[k].op = "delete_episode_file"})

C28_SecondPassLast ==
    (attempted # <<>> /\ EpisodesThenSeries) =>
        /\ \A i, k \in 1..Len(calls) :
                (IsSecondPass(calls[i]) /\ calls[k].op = "delete_episode_file") => k < i
        /\ (pc \in {"remaining", "remove_series"} \/ RemainingQueries # <<>>) =>
                EpisodeOutcomes = Len(to_delete)
        /\ Len(RemainingQueries) <= Len(tagged_series)
        /\ \A k \in 1..Len(RemainingQueries) : RemainingQueries[k].id = tagged_series[k].id
        /\ pc = "remaining" => Len(RemainingQueries) = idx - 1
        /\ ((pc = "finish" /\ raised = <<>>) \/ Completed) =>
                Len(RemainingQueries) = Len(tagged_series)

\* a completed dry run: one tagged series gave a would-delete episode file,
\* the other gave no candidate, and the second pass queried both
C28_Witness ==
    /\ EpisodesThenSeries
    /\ run_state.dry_run
    /\ Completed
    /\ Len(to_delete) = 1
    /\ Len(tagged_series) = 2
    /\ Len(RemainingQueries) = 2
    /\ RemainingQueries[1].id # RemainingQueries[2].id
    /\ \A i \in 1..Len(calls) : ~IsDelete(calls[i])
(***************************************************************************)
(* C29.  Out-of-range or non-numeric configuration values are clamped      *)
(* rather than rejected: the days_old used by a run is always in           *)
(* [1, 36500] and the HTTP timeout used for every remote call is always in *)
(* [5, 300] (30 when the value is not an integer); a value inside the      *)
(* range is used unchanged.                                                *)
(***************************************************************************)
RawDaysOld == cfg.JOBS[1].DAYS_OLD
RawTimeout == cfg.HTTP_TIMEOUT_SECONDS
IsInteger(v) == v.kind \in {"int", "digits"}
Within(v, lo, hi) == IsInteger(v) /\ v.n \in lo..hi
CutoffSet == pc \in {"list", "files", "delete", "remaining", "remove_series"}

ValuesInRange ==
    /\ run_state.days_old \in 1..36500
    /\ CutoffSet => cutoff = clock - run_state.days_old * MinutesPerDay
    /\ \A i \in 1..Len(calls) : calls[i].timeout \in 5..300
    /\ raised # <<>> => calls # <<>> /\ raised \in {<<"api_error">>, <<"tag_not_found">>}

InRangeUnchanged ==
    /\ Within(RawDaysOld, 1, 36500) => run_state.days_old = RawDaysOld.n
    /\ Within(RawTimeout, 5, 300) => \A i \in 1..Len(calls) : calls[i].timeout = RawTimeout.n

Truncated(v, lo, hi) == IF v.n < lo THEN lo ELSE IF v.n > hi THEN hi ELSE v.n

C30_ReaderSeesWhole ==
    ui_seen # <<>> => ui_seen[1].content \in {ui_seen[1].before, ui_seen[1].after}
(***************************************************************************)
(* C31.  The job fails with tag-not-found if and only if no tag of the     *)
(* remote system has a label equal to the job's tag_label; whenever such a *)
(* tag exists, whatever its numeric id, the job proceeds to list items     *)
(* (same rule for the movie and the series application).                   *)
(***************************************************************************)
\* the tag lookup of the run has returned
TagsReturned == attempted # <<>> /\ pc # "tags" /\ calls # <<>> /\ calls[1].ok

C31_TagFoundIffLabelled ==
    TagsReturned =>
        /\ raised = <<"tag_not_found">> <=> JobTagIds = {}
        /\ JobTagIds # {} =>
            /\ pc # "list" => (Len(calls) >= 2 /\ IsListing(calls[2]))
            /\ tag_id \in JobTagIds
(***************************************************************************)
(* C32.  When a job completes normally every candidate counted in          *)
(* candidates_found is accounted for in the run record: candidates_found   *)
(* equals the number of candidate entries in deleted (stamped, or          *)
(* would-delete under dry-run) plus the number of per-candidate delete     *)
(* errors; no candidate is dropped without an entry or an error.           *)
(***************************************************************************)
\* the entries of deleted and of errors that the candidate loop made for the
\* entity id (the second pass makes entries of kind series with a reason)
CandidateEntriesOf(id) ==
    {k \in 1..Len(run_state.deleted) :
        /\ run_state.deleted[k].kind = RunKind(run_state)
        /\ run_state.deleted[k].id = id
        /\ (EpisodesThenSeries => run_state.deleted[k].kind = "episodefile")}
CandidateErrorsOf(id) ==
    {k \in 1..Len(run_state.errors) :
        /\ run_state.errors[k].op = DeleteOpOf(RunKind(run_state))
        /\ run_state.errors[k].id = id}
AllCandidateEntries ==
    {k \in 1..Len(run_state.deleted) : run_state.deleted[k].kind = RunKind(run_state)}
AllCandidateErrors ==
    {k \in 1..Len(run_state.errors) :
        run_state.errors[k].op = DeleteOpOf(RunKind(run_state))}

JobRunning == attempted # <<>> /\ run_state.status = "running"
JobEnded == attempted # <<>> /\ run_state.status \in {"ok", "ok_with_errors", "failed"}
DriverExited == pc = "idle" /\ exit_code # <<>> /\ AttemptedIds = chosen

C33_Terminates ==
    /\ JobRunning ~> JobEnded
    /\ (pc # "idle") ~> DriverExited

\* the driver has exited with status 0 after both of its jobs ended
C33_Witness ==
    /\ DriverExited
    /\ chosen = <<"A", "B">>
    /\ exit_code = <<0>>
    /\ JobEnded
    /\ state.last_runs["A"][1].status \in {"ok", "ok_with_errors"}
    /\ \E i \in 1..Len(calls) : IsDelete(calls[i]) /\ ~calls[i].ok
(***************************************************************************)
(* C34.  The entries of deleted with deleted_at set are in one-to-one      *)
(* correspondence with the successful remote delete calls of the run: an   *)
(* entry is stamped only after its delete call returned successfully,      *)
(* every successful delete call yields exactly one stamped entry with that *)
(* entity's id and kind, a failed call yields no entry, and under dry-run  *)
(* no entry is ever stamped.                                               *)
(***************************************************************************)
KindOfOp(op) ==
    IF op = "delete_movie" THEN "movie"
    ELSE IF op = "delete_series" THEN "series"
    ELSE "episodefile"

\* the entries of deleted for an entity, stamped or not
EntriesFor(kind, id) ==
    {k \in 1..Len(run_state.deleted) :
        run_state.deleted[k].kind = kind /\ run_state.deleted[k].id = id}
StampedEntries == {k \in 1..Len(run_state.deleted) : run_state.deleted[k].deleted_at # <<>>}
\* the delete calls for an entity that returned successfully
DeletesDone(kind, id) ==
    {i \in 1..Len(calls) :
        /\ IsDelete(calls[i]) /\ calls[i].ok
        /\ KindOfOp(calls[i].op) = kind /\ calls[i].id = id}

C34_StampedIffDeleted ==
    attempted # <<>> =>
        /\ \A k \in StampedEntries :
                Cardinality(DeletesDone(run_state.deleted[k].kind, run_state.deleted[k].id)) = 1
        /\ \A i \in 1..Len(calls) : IsDelete(calls[i]) =>
                IF calls[i].ok
                THEN /\ Cardinality(EntriesFor(KindOfOp(calls[i].op), calls[i].id)) = 1
                     /\ EntriesFor(KindOfOp(calls[i].op), calls[i].id) \subseteq StampedEntries
                ELSE EntriesFor(KindOfOp(calls[i].op), calls[i].id) = {}
        /\ Cardinality(StampedEntries) =
                Cardinality({i \in 1..Len(calls) : IsDelete(calls[i]) /\ calls[i].ok})
        /\ run_state.dry_run => StampedEntries = {}

\* a run in episodes_then_series mode whose stamped entries are an episode
\* file and a series, next to a delete call that failed and left no entry
C34_Witness ==
    /\ EpisodesThenSeries
    /\ Completed
    /\ Cardinality(StampedEntries) = 2
    /\ \E i, k \in StampedEntries :
        /\ run_state.deleted[i].kind = "episodefile"
        /\ run_state.deleted[k].kind = "series"
    /\ \E i \in 1..Len(calls) : IsDelete(calls[i]) /\ ~calls[i].ok
(***************************************************************************)
(* C35.  Within one run, the remote listings holding each entity once, at  *)
(* most one delete call is issued per entity (movie id, episode-file id,   *)
(* series id): a failed delete is never retried and no entity is deleted   *)
(* twice, a series in episodes_then_series mode included.                  *)
(***************************************************************************)
DeleteCallsFor(op, id) ==
    {i \in 1..Len(calls) : calls[i].op = op /\ calls[i].id = id}

C35_OneDeletePerEntity ==
    attempted # <<>> =>
        /\ \A i \in 1..Len(calls) : IsDelete(calls[i]) =>
                DeleteCallsFor(calls[i].op, calls[i].id) = {i}
        /\ \A i, k \in 1..Len(to_delete) : i # k => to_delete[i].item.id # to_delete[k].item.id
        /\ \A i, k \in 1..Len(tagged_series) :
                i # k => tagged_series[i].id # tagged_series[k].id

\* a completed run that issued three delete calls, one of which failed: two
\* episode files and the series left without files
C35_Witness ==
    /\ EpisodesThenSeries
    /\ Completed
    /\ Len(SelectSeq(calls, IsDelete)) = 3
    /\ ~CandidateDeletes[1].ok
    /\ \E i \in 1..Len(calls) : calls[i].op = "delete_series"
(***************************************************************************)
(* C36.  Every candidate of a run has age_days >= days_old: the age        *)
(* reference instant is sampled no earlier than the instant used for the   *)
(* cutoff, so no item with an age below the configured threshold is ever   *)
(* recorded or deleted as a candidate.                                     *)
(***************************************************************************)
C36_AgeAtLeastDaysOld ==
    attempted # <<>> =>
        /\ SelectionOver => cutoff + run_state.days_old * MinutesPerDay <= now
        /\ \A i \in 1..Len(to_delete) : to_delete[i].age_days >= run_state.days_old
        /\ \A k \in 1..Len(CandidateEntries) :
                CandidateEntries[k].age_days >= run_state.days_old
        /\ \A i \in 1..Len(calls) :
                (IsDelete(calls[i]) /\ calls[i].pass = 1) =>
                    \E k \in 1..Len(to_delete) :
                        /\ to_delete[k].item.id = calls[i].id
                        /\ to_delete[k].age_days >= run_state.days_old

\* an item less than a day older than the cutoff was deleted with age_days
\* equal to days_old
C36_Witness ==
    /\ Completed
    /\ \E k \in 1..Len(CandidateEntries) :
        /\ CandidateEntries[k].age_days = run_state.days_old
        /\ CandidateEntries[k].deleted_at # <<>>
(***************************************************************************)
(* C37.  Running job A leaves the per-job views of every other job B       *)
(* unchanged: last_runs[B] and run_history_by_job[B] are the same before   *)
(* and after any execution of A; only last_run, run_history, last_runs[A]  *)
(* and run_history_by_job[A] change.                                       *)
(***************************************************************************)
OtherJobsKept(old, new, a) ==
    \A b \in JobIds \ {a} :
        /\ new.last_runs[b] = old.last_runs[b]
        /\ new.run_history_by_job[b] = old.run_history_by_job[b]

\* the file takes for the other jobs nothing but what memory held for them
\* before the step (a write that had failed is made up for)
OtherJobsCaughtUp(a) ==
    \A b \in JobIds \ {a} :
        /\ store'.last_runs[b] \in {store.last_runs[b], state.last_runs[b]}
        /\ store'.run_history_by_job[b] \in
                {store.run_history_by_job[b], state.run_history_by_job[b]}

\* a step of the execution of a job, from its first record to its last: the
\* views of the other jobs stay as they are in memory, and in the file as
\* long as no write of the file has failed
JobStepFrame ==
    (pc # "idle" /\ selected # <<>>) =>
        /\ OtherJobsKept(state, state', job.id)
        /\ OtherJobsCaughtUp(job.id)
        /\ saveFailsLeft = MaxSaveFailures => OtherJobsKept(store, store', job.id)

C37_OtherJobsUntouched == [][JobStepFrame]_vars

\* job A runs in a later driver than the one that ran job B last: the store
\* still holds the finished record of B, older than the run of A
C37_Witness ==
    /\ pc = "finish"
    /\ run_state.job_id = "A"
    /\ store.last_runs["A"] # <<>>
    /\ store.last_runs["A"][1].uid = run_state.uid
    /\ store.last_runs["B"] # <<>>
    /\ store.last_runs["B"][1].uid < run_state.uid
    /\ store.last_runs["B"][1].status # "running"
    /\ store.run_history_by_job["B"] # <<>>

\* ---- C38 ----
FinalizedRun(r) == r.status # "running" /\ r.finished_at # <<>>

HoldsFinal(st, job_id, uid) ==
    /\ st.last_runs[job_id] # <<>>
    /\ st.last_runs[job_id][1].uid = uid
    /\ FinalizedRun(st.last_runs[job_id][1])

InRunHistory(st, uid) == \E k \in 1..Len(st.run_history) : st.run_history[k].uid = uid

\* the first process has run job B alone and exited, the second has run job A
BothFinished ==
    /\ pc = "idle"
    /\ exit_code # <<>>
    /\ chosen = <<"B">>
    /\ Len(attempted) = 1
    /\ peer_pc = "done"

\* neither process loaded the state file after the other's last write
Overlapped ==
    /\ ~HoldsFinal(state, "A", peer_run.uid)
    /\ ~HoldsFinal(peer_state, "B", attempted[1].uid)

LastRunsHoldBoth ==
    /\ HoldsFinal(store, "A", peer_run.uid)
    /\ HoldsFinal(store, "B", attempted[1].uid)

\* C38: when two driver processes have run different jobs with overlapping
\* executions against the same state file and both have finished, last_runs of
\* the file holds the finalized record of both jobs and run_history contains
\* both runs.
C38_NoRunLost ==
    (BothFinished /\ Overlapped) =>
        /\ LastRunsHoldBoth
        /\ InRunHistory(store, peer_run.uid)
        /\ InRunHistory(store, attempted[1].uid)


\* ---- C39 ----
MarkerCleared(j) == j \in flags /\ j \notin flags'

ClearedByOwnJob(j) == pc = "finish" /\ job.id = j

\* C39: a run-now marker of a job is cleared only by a run of that job that
\* started after the marker was written; a marker written while a run of the
\* job is in progress outlives that run.
C39_TriggerNeverLost ==
    [][\A j \in JobIds :
          MarkerCleared(j) => (ClearedByOwnJob(j) /\ flag_written[j] # run_state.uid)]_vars

\* the same without the order of writing and starting: a marker is cleared by
\* the end of a run of its own job and by nothing else
C39_ClearedByOwnJobOnly ==
    [][\A j \in JobIds : MarkerCleared(j) => ClearedByOwnJob(j)]_vars


\* ---- C40 ----
IdsAndAges(rows) == [i \in 1..Len(rows) |-> <<rows[i].id, rows[i].age_days>>]

RunIdsAndAges(cands) == [i \in 1..Len(cands) |-> <<cands[i].item.id, cands[i].age_days>>]

\* run_job took its cutoff and its age reference at one instant
SameInstant(nw) == nw = cutoff + job.DAYS_OLD * MinutesPerDay

\* the movie listing of a Radarr job has just been answered
MoviesListed ==
    /\ pc = "list"
    /\ pc' # "list"
    /\ job.APP = "radarr"
    /\ raised' # <<"api_error">>
    /\ SameInstant(now')

\* C40: for the same Radarr content, job and instant, preview_candidates
\* returns the movies run_job selects, with the same age_days, in the same
\* order; it fails on a date exactly when run_job does; it issues GET requests
\* only.
C40_PreviewAgreesWithRun ==
    [][MoviesListed =>
        LET p == preview_candidates(radarr, job, now')
        IN  /\ p.raise <=> raised' = <<"value_error">>
            /\ ~p.raise =>
                /\ p.error = <<>>
                /\ IdsAndAges(p.candidates) = RunIdsAndAges(to_delete')
            /\ \A k \in 1..Len(p.calls) : p.calls[k].method = "GET"]_vars

\* run_job has selected two movies and put the second of the library first;
\* the preview of the same library lists them the same way
C40_Witness ==
    /\ pc = "delete"
    /\ job.APP = "radarr"
    /\ idx = 1
    /\ SameInstant(now)
    /\ Len(to_delete) = 2
    /\ to_delete[1].item.id = 2
    /\ to_delete[1].age_days > to_delete[2].age_days
    /\ IdsAndAges(preview_candidates(radarr, job, now).candidates) = RunIdsAndAges(to_delete)

====
